---- MODULE Spec2Model ----
(***************************************************************************)
(* A model of the session orchestration core of the assistant backend:     *)
(* backend/ada.py (class AudioLoop) and the socket handlers of             *)
(* backend/server.py that create, stop and talk to an AudioLoop.           *)
(*                                                                         *)
(* Every AudioLoop object is one record of the function `loops`; the       *)
(* fields keep the names of the attributes of the class (without the       *)
(* leading underscore) and of the locals of run() and receive_audio().     *)
(* A coroutine is modelled by a program counter field and one action per   *)
(* stretch of code between two awaits.                                     *)
(***************************************************************************)
EXTENDS Integers, Sequences, FiniteSets, TLC

VARIABLES
    loops,        \* loop id -> the AudioLoop object with that id
    audio_loop,   \* server.py global audio_loop (0 is None)
    loop_task,    \* server.py global loop_task: the run() task of that loop (0 is None)
    chat_log      \* projects/<current>/chat_history.jsonl, oldest entry first

vars == <<loops, audio_loop, loop_task, chat_log>>

(***************************************************************************)
(* Bounds of the model                                                     *)
(***************************************************************************)
MaxLoops == 2        \* AudioLoop objects the server creates
MaxSendItems == 3    \* chunks read in a session whose sends can fail
MaxFailures == 7     \* consecutive failures of run() that are told apart
MaxSessions == 2     \* successful connects of one run()
MaxLog == 11         \* entries of the chat log
MaxItems == 5        \* items put on the outbound queue of one session
MaxChunks == 11      \* items put on it when only the microphone is looked at
MaxLen == 2          \* characters of a cumulative transcript
MaxEvents == 3       \* events an AudioLoop receives
MaxTurns == 2        \* turns an AudioLoop sees the end of
MaxCalls == 3        \* function calls an AudioLoop receives
MaxTaskCalls == 2    \* function calls of tools whose handler is a task of its own

LoopIds == 1..MaxLoops
SessionIds == 1..MaxSessions

(***************************************************************************)
(* Program constants                                                       *)
(***************************************************************************)
InitialRetryDelay == 1     \* ada.py:1174
MaxRetryDelay == 10        \* ada.py:1257
HistoryLimit == 10         \* ada.py:1215
ChunkMs == 64              \* ada.py:29-31, CHUNK_SIZE / SEND_SAMPLE_RATE
SilenceDurationMs == 500   \* ada.py:415
OutQueueMax == 10          \* ada.py:1187

VideoModes == {"camera", "screen", "none"}
TaskNames == {"send_realtime", "listen_audio", "get_frames", "get_screen",
              "receive_audio", "play_audio"}

Min(a, b) == IF a < b THEN a ELSE b

\* Texts are sequences of characters; the empty text is <<>>.
Repeat(c, n) == [i \in 1..n |-> c]

\* Tool names: two of the names receive_audio knows (ada.py:721), one whose
\* handler is a spawned task and one whose handler is awaited inline; and a
\* name it does not know.
KnownTools == {"generate_cad", "control_light", "discover_printers",
               "run_web_agent", "create_project", "switch_project"}
ToolNames == KnownTools \cup {"other_tool"}
\* The tools the UI's session is asked for, and the ones whose agent is awaited
\* by receive_audio itself.
DispatchTools == {"generate_cad", "control_light", "other_tool"}
AgentTools == {"control_light", "discover_printers"}
\* The tools of the project manager, and the ones whose handler is a task of
\* its own.
ProjectTools == {"create_project", "switch_project"}
TaskTools == {"generate_cad", "run_web_agent"}
NoCall == [id |-> 0, name |-> "none"]
NoPermissions == [n \in {} |-> TRUE]

Chars == {"a", " "}
Texts == UNION {[1..n -> Chars] : n \in 0..MaxLen}

(***************************************************************************)
(* AudioLoop.__init__ and the locals of run()                              *)
(***************************************************************************)
NoTasks == [t \in TaskNames |-> "none"]

NewLoop(video_mode, start_message) ==
    [ video_mode    |-> video_mode,
      start_message |-> start_message,     \* run(start_message): given or None
      stop_event    |-> FALSE,
      session       |-> 0,                 \* self.session: 0 is None
      paused        |-> FALSE,
      out_queue     |-> <<>>,
      audio_in_queue |-> <<>>,             \* the chunks queued for playback: the numbers of their events
      played        |-> {},                \* the chunks play_audio has taken
      drained       |-> {},                \* the chunks discarded at the end of a turn
      latest_image_payload |-> FALSE,      \* a frame is stored
      is_speaking   |-> FALSE,
      silence_start_time |-> FALSE,        \* a timestamp is stored
      silence_elapsed |-> 0,               \* ms since that timestamp, as of the last chunk
      \* what an observer of the microphone has seen of the current run of
      \* chunks at or below the threshold: how long it has lasted, whether the
      \* detector was speaking when it began, and how many times is_speaking
      \* was set to false during it
      quiet_ms      |-> 0,
      quiet_spoken  |-> FALSE,
      quiet_resets  |-> 0,
      stored_at     |-> 0,                \* puts when the first frame was stored, plus one
      on_tool_confirmation |-> TRUE,
      permissions   |-> NoPermissions,
      pending       |-> NoPermissions,     \* _pending_confirmations: id -> future
      uuids         |-> 0,                 \* uuid4() values drawn so far
      requests      |-> <<>>,              \* on_tool_confirmation payloads
      started       |-> <<>>,              \* tool handlers started
      ncalls        |-> 0,                 \* function calls received so far
      calls         |-> <<>>,              \* function calls of the event not yet iterated
      fc            |-> NoCall,
      request_id    |-> 0,                 \* local of receive_audio; 0: unbound
      function_responses |-> <<>>,
      chat_buffer   |-> [sender |-> "None", text |-> <<>>],
      last_input_transcription  |-> <<>>,
      last_output_transcription |-> <<>>,
      \* receive_audio()
      recv_pc       |-> "recv",
      events        |-> 0,                 \* events received so far
      events_before |-> 0,                 \* events received before the current session
      turns         |-> 0,                 \* turns that have ended so far
      cleared       |-> 0,                 \* count of the last clear_audio_queue()
      emitted       |-> <<>>,              \* on_transcription payloads of the last event
      dup           |-> {},                \* the channels whose transcript in the last event repeated the tracker
      \* what an observer of the current turn has seen, per channel: the last
      \* cumulative transcript received, whether each one so far started with
      \* the one before it, and the deltas emitted, concatenated
      \* and the run of payloads of one sender that the transcript callback
      \* is being given in the current turn
      run           |-> [sender |-> "None", text |-> <<>>],
      turn_seen     |-> [c \in {"User", "ADA"} |-> <<>>],
      turn_chain    |-> [c \in {"User", "ADA"} |-> TRUE],
      turn_heard    |-> [c \in {"User", "ADA"} |-> <<>>],
      \* send_realtime()
      send_pc       |-> "get",
      msg           |-> <<>>,              \* the item being sent
      \* listen_audio()
      listen_pc     |-> "read",
      loud          |-> FALSE,             \* rms > VAD_THRESHOLD for the chunk read
      \* get_frames()
      frames_pc     |-> "capture",
      puts          |-> 0,                 \* items put on out_queue so far
      \* run()
      run_pc        |-> "constructed",
      audio_stream  |-> FALSE,             \* listen_audio has opened the input stream in this session
      mic_failed    |-> FALSE,             \* the input stream of this session could not be opened
      agent_raised  |-> FALSE,             \* an agent awaited by receive_audio has raised
      \* the tasks made with asyncio.create_task for tool handlers, by the id
      \* of their call: the tool, how far the handler is, and the session
      \* that was current when the task was made
      background    |-> NoPermissions,
      swallowed     |-> {},                \* the notification sends whose exception a handler caught
      current_project |-> "temp",          \* project_manager.current_project
      project_exists |-> FALSE,            \* the directory of the project the calls name exists
      failed        |-> {},                \* the items whose send to the current session raised
      retry_delay   |-> InitialRetryDelay,
      failures      |-> 0,                 \* unexpected failures since the last connect that succeeded
      is_reconnect  |-> FALSE,
      context_msg   |-> <<>>,              \* the message run() is sending
      tg_aborting   |-> FALSE,             \* TaskGroup._aborting
      tasks         |-> NoTasks,           \* TaskGroup._tasks: the unfinished tasks
      leaked        |-> {},                \* unfinished tasks of earlier groups
      \* the remote end
      open          |-> {},                \* sessions whose connection is open
      wire          |-> <<>> ]             \* what the Session self.session has been sent

Unborn == [NewLoop("none", FALSE) EXCEPT !.run_pc = "unborn"]

\* The tasks run() creates in the TaskGroup (ada.py:1189-1199).
GroupTasks(L) ==
    {"send_realtime", "listen_audio", "receive_audio", "play_audio"}
        \cup (IF L.video_mode = "camera" THEN {"get_frames"} ELSE {})
        \cup (IF L.video_mode = "screen" THEN {"get_screen"} ELSE {})

Unfinished(L) == {t \in TaskNames : L.tasks[t] # "none"}


Set(l, L) == loops' = [loops EXCEPT ![l] = L]

(***************************************************************************)
(* ProjectManager (backend/project_manager.py)                             *)
(***************************************************************************)
\* A slice from the wrong end: lines[:limit].
FirstLines(lines, limit) ==
    IF Len(lines) <= limit THEN lines ELSE SubSeq(lines, 1, limit)

\* lines[-limit:] of a list, as Python slices it.
LastLines(lines, limit) ==
    IF Len(lines) <= limit THEN lines
    ELSE SubSeq(lines, Len(lines) - limit + 1, Len(lines))

\* ProjectManager.get_recent_chat_history(limit): every line of the log was
\* written by log_chat as one JSON document, so every line parses.
GetRecentChatHistory(log, limit) == LastLines(log, limit)

\* ProjectManager.log_chat(sender, text)
LogChat(log, sender, text) == Append(log, [sender |-> sender, text |-> text])

(***************************************************************************)
(* AudioLoop.run: the supervisor                                           *)
(***************************************************************************)
\* A loop that does not test the stop event: while True.
WhileConditionIgnoresStop(L) == TRUE

\* while not self.stop_event.is_set()
WhileCondition(L) == ~L.stop_event

\* min(retry_delay * 2, 10)
NextRetryDelay(d) == Min(d * 2, MaxRetryDelay)

\* The start message of the first connect (ada.py:1203-1205).
StartMsg == [kind |-> "start_message", body |-> <<>>, end_of_turn |-> TRUE]

\* The context message of a reconnect (ada.py:1215-1226): one line
\* "[sender]: text" for every entry of the history, in the order of the history.
ReconnectMsg(history) ==
    [kind |-> "reconnect_context",
     body |-> [i \in 1..Len(history) |->
                  [sender |-> history[i].sender, text |-> history[i].text]],
     end_of_turn |-> TRUE]

\* TaskGroup._abort: cancel every task of the group that is not done.
Abort(L) ==
    [L EXCEPT !.tg_aborting = TRUE,
              !.tasks = [t \in TaskNames |->
                            IF @[t] = "running" THEN "cancelling" ELSE @[t]]]

\* Task t of the group ends with an exception: TaskGroup._on_task_done
\* aborts the group, and the body of the async with is cancelled.
Raise(L, t) ==
    [Abort([L EXCEPT !.tasks[t] = "none"])
        EXCEPT !.context_msg = <<>>, !.run_pc = "tg_exit"]

\* A map without the key id.
Remove(map, id) == [i \in DOMAIN map \ {id} |-> map[i]]

\* A cancellation that skips the finally of receive_audio.
CancelledNoFinally(L, t) == [L EXCEPT !.tasks[t] = "none"]

\* CancelledError in task t: receive_audio suspended on a confirmation leaves
\* through its finally (ada.py:747-752).
Cancelled(L, t) ==
    IF t = "receive_audio" /\ L.recv_pc = "await_confirm"
    THEN [L EXCEPT !.tasks[t] = "none", !.pending = Remove(@, L.request_id)]
    ELSE [L EXCEPT !.tasks[t] = "none"]

\* An exit that does not wait for the tasks.
TgAllDoneNoWait(L) == TRUE

\* TaskGroup.__aexit__ returns once every task of the group is done.
TgAllDone(L) == Unfinished(L) = {}

\* except Exception (ada.py:1248-1258), up to the backoff sleep.
OnException(L) ==
    [L EXCEPT !.run_pc = IF L.stop_event THEN "done" ELSE "backoff",
              !.failures = IF L.stop_event THEN @ ELSE Min(@ + 1, MaxFailures),
              !.context_msg = <<>>]

\* A session that goes on with the queues of the one before it.
KeepQueues(L) == L

\* self.audio_in_queue = asyncio.Queue();
\* self.out_queue = asyncio.Queue(maxsize=10)  (ada.py:1186-1187)
NewQueues(L) == [L EXCEPT !.audio_in_queue = <<>>, !.out_queue = <<>>]

\* The body of the async with up to its first await (ada.py:1184-1226).
EnterSession(L, log) ==
    LET g == L.session + 1
        E == [NewQueues(L) EXCEPT
                       !.session = g,
                       !.events_before = L.events,
                       !.failures = 0,
                       !.failed = {},
                       !.audio_stream = FALSE,
                       !.mic_failed = FALSE,
                       !.open = @ \cup {g},
                       !.wire = <<>>,
                       !.puts = 0,
                       !.send_pc = "get",
                       !.msg = <<>>,
                       !.recv_pc = "recv",
                       !.calls = <<>>,
                       !.fc = NoCall,
                       !.request_id = 0,
                       !.function_responses = <<>>,
                       !.emitted = <<>>,
                       !.dup = {},
                       !.run = [sender |-> "None", text |-> <<>>],
                       !.turn_seen = [c \in {"User", "ADA"} |-> <<>>],
                       !.turn_chain = [c \in {"User", "ADA"} |-> TRUE],
                       !.turn_heard = [c \in {"User", "ADA"} |-> <<>>],
                       !.listen_pc = "read",
                       !.frames_pc = "capture",
                       !.tg_aborting = FALSE,
                       !.leaked = @ \cup Unfinished(L),
                       !.tasks = [t \in TaskNames |->
                                     IF t \in GroupTasks(L) THEN "running" ELSE "none"]]
    IN  IF ~L.is_reconnect
        THEN IF L.start_message
             THEN [E EXCEPT !.context_msg = <<StartMsg>>, !.run_pc = "greeting"]
             ELSE [E EXCEPT !.retry_delay = InitialRetryDelay, !.run_pc = "waiting"]
        ELSE [E EXCEPT !.context_msg =
                           <<ReconnectMsg(GetRecentChatHistory(log, HistoryLimit))>>,
                       !.run_pc = "greeting"]

\* The loop condition at the top of an iteration.
RunLoopCheck(l) ==
    LET L == loops[l] IN
    /\ L.run_pc = "loop_check"
    /\ Set(l, [L EXCEPT !.run_pc = IF WhileCondition(L) THEN "connecting" ELSE "done"])
    /\ UNCHANGED <<audio_loop, loop_task, chat_log>>

\* client.aio.live.connect(...) succeeds and the TaskGroup is entered.
ConnectSucceeds(l) ==
    LET L == loops[l] IN
    /\ L.run_pc = "connecting"
    /\ L.session < MaxSessions
    /\ Set(l, EnterSession(L, chat_log))
    /\ UNCHANGED <<audio_loop, loop_task, chat_log>>

\* client.aio.live.connect(...) raises.
ConnectFails(l) ==
    LET L == loops[l] IN
    /\ L.run_pc = "connecting"
    /\ Set(l, OnException(L))
    /\ UNCHANGED <<audio_loop, loop_task, chat_log>>

\* await self.session.send(input=..., end_of_turn=True) returns (ada.py:1205, 1226-1229).
GreetingSent(l) ==
    LET L == loops[l] IN
    /\ L.run_pc = "greeting"
    /\ Set(l, [L EXCEPT !.wire = Append(@, L.context_msg[1]),
                        !.context_msg = <<>>,
                        !.retry_delay = InitialRetryDelay,
                        !.run_pc = "waiting"])
    /\ UNCHANGED <<audio_loop, loop_task, chat_log>>

\* await self.session.send(...) raises in the body: __aexit__ aborts the group.
GreetingFails(l) ==
    LET L == loops[l] IN
    /\ L.run_pc = "greeting"
    /\ Set(l, [Abort(L) EXCEPT !.context_msg = <<>>, !.run_pc = "tg_exit"])
    /\ UNCHANGED <<audio_loop, loop_task, chat_log>>

\* await self.stop_event.wait() returns (ada.py:1242): the body ends normally
\* and TaskGroup.__aexit__ waits for the tasks.
WaitReturns(l) ==
    LET L == loops[l] IN
    /\ L.run_pc = "waiting"
    /\ L.stop_event
    /\ Set(l, [L EXCEPT !.run_pc = "tg_exit"])
    /\ UNCHANGED <<audio_loop, loop_task, chat_log>>

\* A task of the session's group raises: TaskGroup._on_task_done discards it,
\* records the error, aborts the group and cancels the parent if it is still
\* in the body.
TaskRaise(l, t) ==
    LET L == loops[l] IN
    /\ L.run_pc \in {"greeting", "waiting", "tg_exit"}
    /\ L.tasks[t] = "running"
    /\ t = "receive_audio" => L.recv_pc = "recv"
    /\ Set(l, Raise(L, t))
    /\ UNCHANGED <<audio_loop, loop_task, chat_log>>

\* A task of the session's group returns: get_screen (ada.py:1170-1171),
\* listen_audio when the stream cannot be opened (ada.py:403-406), get_frames
\* when the camera gives no frame (ada.py:1148-1153).
TaskReturns(l, t) ==
    LET L == loops[l] IN
    /\ L.run_pc \in {"greeting", "waiting", "tg_exit"}
    /\ t \in {"get_screen", "listen_audio", "get_frames"}
    /\ L.tasks[t] = "running"
    /\ t = "listen_audio" => ~L.audio_stream
    /\ Set(l, [L EXCEPT !.tasks[t] = "none",
                        !.mic_failed = IF t = "listen_audio" THEN TRUE ELSE @])
    /\ UNCHANGED <<audio_loop, loop_task, chat_log>>

\* CancelledError is delivered to a cancelled task at its await.
TaskCancelled(l, t) ==
    LET L == loops[l] IN
    /\ L.tasks[t] = "cancelling"
    /\ Set(l, Cancelled(L, t))
    /\ UNCHANGED <<audio_loop, loop_task, chat_log>>

\* TaskGroup.__aexit__ and then connect's __aexit__ return: the session is
\* closed; an aborted group raises into except Exception.
TgExit(l) ==
    LET L == loops[l]
        C == [L EXCEPT !.open = @ \ {L.session}]
    IN
    /\ L.run_pc = "tg_exit"
    /\ TgAllDone(L)
    /\ Set(l, IF L.tg_aborting THEN OnException(C)
              ELSE [C EXCEPT !.run_pc = "loop_check"])
    /\ UNCHANGED <<audio_loop, loop_task, chat_log>>

\* await asyncio.sleep(retry_delay) returns (ada.py:1256-1258).
BackoffElapsed(l) ==
    LET L == loops[l] IN
    /\ L.run_pc = "backoff"
    /\ Set(l, [L EXCEPT !.retry_delay = NextRetryDelay(@),
                        !.is_reconnect = TRUE,
                        !.run_pc = "loop_check"])
    /\ UNCHANGED <<audio_loop, loop_task, chat_log>>

\* AudioLoop.stop
Stop(l) ==
    LET L == loops[l] IN
    /\ L.run_pc # "unborn"
    /\ Set(l, [L EXCEPT !.stop_event = TRUE])
    /\ UNCHANGED <<audio_loop, loop_task, chat_log>>

(***************************************************************************)
(* The outbound queue: send_realtime, listen_audio, get_frames, send_frame *)
(***************************************************************************)
\* An item of out_queue.  seq is the position at which it was put, which
\* stands for the payload: no two items of a session are the same.
AudioItem(n) == [mime_type |-> "audio/pcm", seq |-> n]
ImageItem(n) == [mime_type |-> "image/jpeg", seq |-> n]

\* A queue without a bound.
FullNever(q) == FALSE

\* asyncio.Queue(maxsize=10).full()
Full(q) == Len(q) >= OutQueueMax

\* put_nowait on out_queue
Put(L, mime) ==
    [L EXCEPT !.out_queue = Append(@, [mime_type |-> mime, seq |-> L.puts + 1]),
              !.puts = @ + 1]

\* A queue that hands out its newest item.
QueueGetNewest(q) == [item |-> q[Len(q)], rest |-> SubSeq(q, 1, Len(q) - 1)]

\* A queue whose get loses the item behind the one it hands out.
QueueGetDropsNext(q) ==
    [item |-> Head(q), rest |-> IF Len(q) > 1 THEN Tail(Tail(q)) ELSE <<>>]

\* asyncio.Queue.get: the oldest item.
QueueGet(q) == [item |-> Head(q), rest |-> Tail(q)]

\* A detector that never notes that an utterance has begun.
VadOnsetForgotten(L, elapsed) ==
    IF L.loud
    THEN [L EXCEPT !.silence_start_time = FALSE, !.silence_elapsed = 0]
    ELSE L

\* A detector that leaves the silence timer alone when speech is heard.
VadTimerKept(L, elapsed) ==
    IF L.loud
    THEN [L EXCEPT !.is_speaking = TRUE]
    ELSE IF ~L.is_speaking THEN L
         ELSE IF ~L.silence_start_time
              THEN [L EXCEPT !.silence_start_time = TRUE, !.silence_elapsed = 0]
              ELSE IF elapsed
                   THEN [L EXCEPT !.is_speaking = FALSE, !.silence_start_time = FALSE,
                                  !.silence_elapsed = 0]
                   ELSE L

\* The VAD of listen_audio for one chunk (ada.py:440-465); elapsed says whether
\* time.time() - silence_start_time > SILENCE_DURATION.
Vad(L, elapsed) ==
    IF L.loud
    THEN [L EXCEPT !.silence_start_time = FALSE, !.silence_elapsed = 0,
                   !.is_speaking = TRUE]
    ELSE IF ~L.is_speaking THEN L
         ELSE IF ~L.silence_start_time
              THEN [L EXCEPT !.silence_start_time = TRUE, !.silence_elapsed = 0]
              ELSE IF elapsed
                   THEN [L EXCEPT !.is_speaking = FALSE, !.silence_start_time = FALSE,
                                  !.silence_elapsed = 0]
                   ELSE L

\* time.time() - self._silence_start_time > SILENCE_DURATION (ada.py:461)
Elapsed(ms) == ms > SilenceDurationMs

\* The clock of the detector moves on by dt ms; times beyond the ones the
\* detector can tell apart are not told apart.
Tick(L, dt) ==
    [L EXCEPT !.silence_elapsed =
                  IF L.silence_start_time
                  THEN Min(@ + dt, SilenceDurationMs + ChunkMs) ELSE 0]

\* What the observer of the microphone notes of a chunk: Before and After are
\* the AudioLoop before and after the chunk.
ObserveChunk(Before, isLoud, dt, After) ==
    IF isLoud
    THEN [After EXCEPT !.quiet_ms = 0, !.quiet_spoken = FALSE, !.quiet_resets = 0]
    ELSE [After EXCEPT
            !.quiet_ms = Min(@ + dt, SilenceDurationMs + 2 * ChunkMs),
            !.quiet_spoken = IF Before.quiet_ms = 0 THEN Before.is_speaking ELSE @,
            !.quiet_resets = IF Before.is_speaking /\ ~After.is_speaking
                             THEN Min(@ + 1, 2) ELSE @]

\* A listen_audio that sends the stored frame with every chunk above the
\* threshold, and not only with the first of an utterance.
ListenContinueFrameEveryChunk(L, elapsed) ==
    IF L.listen_pc = "put_audio"
    THEN IF Full(L.out_queue) THEN L
         ELSE LET P == Put(L, "audio/pcm")
                  V == Vad(P, elapsed)
              IN  IF L.loud /\ L.latest_image_payload
                  THEN IF Full(V.out_queue) THEN [V EXCEPT !.listen_pc = "put_frame"]
                       ELSE [Put(V, "image/jpeg") EXCEPT !.listen_pc = "read"]
                  ELSE [V EXCEPT !.listen_pc = "read"]
    ELSE IF Full(L.out_queue) THEN L
         ELSE [Put(L, "image/jpeg") EXCEPT !.listen_pc = "read"]

\* listen_audio from a put to the next suspension (ada.py:425-465): a put on a
\* full queue suspends, the read of the next chunk suspends.
ListenContinue(L, elapsed) ==
    IF L.listen_pc = "put_audio"
    THEN IF Full(L.out_queue) THEN L
         ELSE LET P == Put(L, "audio/pcm")
                  onset == L.loud /\ ~L.is_speaking
                  V == Vad(P, elapsed)
              IN  IF onset /\ L.latest_image_payload
                  THEN IF Full(V.out_queue) THEN [V EXCEPT !.listen_pc = "put_frame"]
                       ELSE [Put(V, "image/jpeg") EXCEPT !.listen_pc = "read"]
                  ELSE [V EXCEPT !.listen_pc = "read"]
    ELSE IF Full(L.out_queue) THEN L
         ELSE [Put(L, "image/jpeg") EXCEPT !.listen_pc = "read"]

\* self.audio_stream.read returns a chunk, dt ms after the chunk before it
\* (ada.py:418-427).
ListenRead(l, isLoud, dt) ==
    LET L == loops[l]
        T == Tick([L EXCEPT !.loud = isLoud, !.listen_pc = "put_audio",
                            !.audio_stream = TRUE], dt)
    IN
    /\ L.tasks["listen_audio"] = "running"
    /\ L.listen_pc = "read"
    /\ ~L.paused
    /\ Set(l, ObserveChunk(L, isLoud, dt, ListenContinue(T, Elapsed(T.silence_elapsed))))
    /\ UNCHANGED <<audio_loop, loop_task, chat_log>>

\* pya.get_default_input_device_info() raises, there being no input device
\* (ada.py:351): the call is outside the try of the open.
ListenNoInputDevice(l) ==
    LET L == loops[l] IN
    /\ L.run_pc \in {"greeting", "waiting", "tg_exit"}
    /\ L.tasks["listen_audio"] = "running"
    /\ ~L.audio_stream
    /\ Set(l, [Raise(L, "listen_audio") EXCEPT !.mic_failed = TRUE])
    /\ UNCHANGED <<audio_loop, loop_task, chat_log>>

\* A put of listen_audio that was suspended on a full queue goes on.
ListenUnblocked(l, elapsed) ==
    LET L == loops[l] IN
    /\ L.tasks["listen_audio"] = "running"
    /\ L.listen_pc \in {"put_audio", "put_frame"}
    /\ ~Full(L.out_queue)
    /\ Set(l, LET A == ListenContinue(L, elapsed) IN
               [A EXCEPT !.quiet_resets = IF L.is_speaking /\ ~A.is_speaking
                                          THEN Min(@ + 1, 2) ELSE @])
    /\ UNCHANGED <<audio_loop, loop_task, chat_log>>

\* get_frames: a frame is captured, then the task sleeps a second (ada.py:1143-1150).
GetFramesCapture(l) ==
    LET L == loops[l] IN
    /\ L.tasks["get_frames"] = "running"
    /\ L.frames_pc = "capture"
    /\ ~L.paused
    /\ L.puts < MaxItems
    /\ Set(l, [L EXCEPT !.frames_pc = "put"])
    /\ UNCHANGED <<audio_loop, loop_task, chat_log>>

\* get_frames: the frame is put on the queue (ada.py:1151-1152).
GetFramesPut(l) ==
    LET L == loops[l] IN
    /\ L.tasks["get_frames"] = "running"
    /\ L.frames_pc = "put"
    /\ ~Full(L.out_queue)
    /\ Set(l, [Put(L, "image/jpeg") EXCEPT !.frames_pc = "capture"])
    /\ UNCHANGED <<audio_loop, loop_task, chat_log>>

\* send_realtime: msg = await self.out_queue.get() (ada.py:347)
SendRealtimeGet(l) ==
    LET L == loops[l] IN
    /\ L.tasks["send_realtime"] = "running"
    /\ L.send_pc = "get"
    /\ L.out_queue # <<>>
    /\ Set(l, [L EXCEPT !.msg = <<QueueGet(L.out_queue).item>>,
                        !.out_queue = QueueGet(L.out_queue).rest,
                        !.send_pc = "send"])
    /\ UNCHANGED <<audio_loop, loop_task, chat_log>>

\* send_realtime: await self.session.send(input=msg, end_of_turn=False) returns (ada.py:348)
SendRealtimeSent(l) ==
    LET L == loops[l] IN
    /\ L.tasks["send_realtime"] = "running"
    /\ L.send_pc = "send"
    /\ Set(l, [L EXCEPT !.wire = Append(@, [kind |-> "realtime", body |-> L.msg[1],
                                            end_of_turn |-> FALSE]),
                        !.msg = <<>>,
                        !.send_pc = "get"])
    /\ UNCHANGED <<audio_loop, loop_task, chat_log>>

\* A sender that catches the error of the send and queues the item again.
SendFailedRequeues(L) ==
    [L EXCEPT !.out_queue = L.msg \o @, !.msg = <<>>, !.send_pc = "get"]

\* session.send raises in send_realtime, which has no handler (ada.py:345-348):
\* the task ends with the exception.
SendFailed(L) == Raise(L, "send_realtime")

\* send_realtime: await self.session.send(input=msg, end_of_turn=False) raises (ada.py:348)
SendRealtimeFails(l) ==
    LET L == loops[l] IN
    /\ L.run_pc \in {"greeting", "waiting", "tg_exit"}
    /\ L.tasks["send_realtime"] = "running"
    /\ L.send_pc = "send"
    /\ Set(l, [SendFailed(L) EXCEPT !.failed = @ \cup {L.msg[1]}])
    /\ UNCHANGED <<audio_loop, loop_task, chat_log>>

\* AudioLoop.send_frame, called by video_frame (ada.py:334-343, server.py:484-490)
SendFrame(l) ==
    LET L == loops[l] IN
    /\ L.run_pc # "unborn"
    /\ Set(l, [L EXCEPT !.latest_image_payload = TRUE,
                        !.stored_at = IF @ = 0 THEN L.puts + 1 ELSE @])
    /\ UNCHANGED <<audio_loop, loop_task, chat_log>>

(***************************************************************************)
(* receive_audio: audio and transcripts (ada.py:640-710, 1115-1119)        *)
(*                                                                         *)
(* The operators below work on a pair W = [L, log] of an AudioLoop and the *)
(* chat log, which log_chat appends to.                                    *)
(***************************************************************************)
\* str.startswith
StartsWith(t, prefix) ==
    Len(prefix) <= Len(t) /\ SubSeq(t, 1, Len(prefix)) = prefix

\* text.strip() is empty
IsBlank(text) == \A i \in 1..Len(text) : text[i] = " "

\* The delta of a cumulative transcript (ada.py:659-661, 690-692)
TranscriptDelta(transcript, last) ==
    IF StartsWith(transcript, last)
    THEN SubSeq(transcript, Len(last) + 1, Len(transcript))
    ELSE transcript

\* A clear that takes one chunk only.
ClearOneChunk(L) ==
    [L EXCEPT !.cleared = Min(1, Len(L.audio_in_queue)),
              !.audio_in_queue = IF @ = <<>> THEN @ ELSE Tail(@)]

\* AudioLoop.clear_audio_queue
ClearAudioQueue(L) ==
    [L EXCEPT !.cleared = Len(L.audio_in_queue), !.audio_in_queue = <<>>]

\* The chat buffer takes a delta of a sender (ada.py:673-682, 701-710).
BufferDelta(W, sender, delta) ==
    LET buf == W.L.chat_buffer IN
    IF buf.sender # sender
    THEN [L |-> [W.L EXCEPT !.chat_buffer = [sender |-> sender, text |-> delta]],
          log |-> IF buf.sender # "None" /\ ~IsBlank(buf.text)
                  THEN LogChat(W.log, buf.sender, buf.text)
                  ELSE W.log]
    ELSE [W EXCEPT !.L.chat_buffer.text = @ \o delta]

\* A handler that takes a transcript equal to the one before it for a new one.
OnTranscriptNoDedup(W, sender, transcript) ==
    LET last == IF sender = "User" THEN W.L.last_input_transcription
                ELSE W.L.last_output_transcription
        delta == IF transcript = last THEN transcript
                 ELSE TranscriptDelta(transcript, last)
        T == IF sender = "User"
             THEN [W.L EXCEPT !.last_input_transcription = transcript]
             ELSE [W.L EXCEPT !.last_output_transcription = transcript]
        C == IF sender = "User" THEN ClearAudioQueue(T) ELSE T
        E == [C EXCEPT !.emitted = Append(@, [sender |-> sender, text |-> delta])]
    IN  IF transcript = <<>> THEN W
        ELSE BufferDelta([W EXCEPT !.L = E], sender, delta)

\* One transcript of an event (ada.py:653-682 for "User", 684-710 for "ADA").
OnTranscript(W, sender, transcript) ==
    LET last == IF sender = "User" THEN W.L.last_input_transcription
                ELSE W.L.last_output_transcription
        delta == TranscriptDelta(transcript, last)
        T == IF sender = "User"
             THEN [W.L EXCEPT !.last_input_transcription = transcript]
             ELSE [W.L EXCEPT !.last_output_transcription = transcript]
        C == IF sender = "User" THEN ClearAudioQueue(T) ELSE T
        E == [C EXCEPT !.emitted = Append(@, [sender |-> sender, text |-> delta])]
    IN  IF transcript = <<>> \/ transcript = last THEN W
        ELSE IF delta = <<>> THEN [W EXCEPT !.L = T]
        ELSE BufferDelta([W EXCEPT !.L = E], sender, delta)

\* One event of the stream, up to its tool calls (ada.py:646-710).
OnEvent(W, ev) ==
    LET D == IF ev.data
             THEN [W EXCEPT !.L.audio_in_queue = Append(@, W.L.events + 1),
                            !.L.emitted = <<>>]
             ELSE [W EXCEPT !.L.emitted = <<>>]
    IN  OnTranscript(OnTranscript(D, "User", ev.input), "ADA", ev.output)

\* AudioLoop.flush_chat
FlushChat(W) ==
    LET buf == W.L.chat_buffer
        F == IF buf.sender # "None" /\ ~IsBlank(buf.text)
             THEN [L |-> [W.L EXCEPT !.chat_buffer = [sender |-> "None", text |-> <<>>]],
                   log |-> LogChat(W.log, buf.sender, buf.text)]
             ELSE W
    IN  [F EXCEPT !.L.last_input_transcription = <<>>,
                  !.L.last_output_transcription = <<>>]

\* What the observer of the turn notes of an event: Before and After are the
\* AudioLoop before and after OnEvent.
Heard(After, c) ==
    LET Cat[k \in 0..Len(After.emitted)] ==
            IF k = 0 THEN <<>>
            ELSE IF After.emitted[k].sender = c
                 THEN Cat[k - 1] \o After.emitted[k].text ELSE Cat[k - 1]
    IN  Cat[Len(After.emitted)]

RunAfter(run, emitted) ==
    LET R[k \in 0..Len(emitted)] ==
            IF k = 0 THEN run
            ELSE IF emitted[k].sender = R[k - 1].sender
                 THEN [R[k - 1] EXCEPT !.text = @ \o emitted[k].text]
                 ELSE emitted[k]
    IN  R[Len(emitted)]

Observe(Before, ev, After) ==
    LET t == [c \in {"User", "ADA"} |-> IF c = "User" THEN ev.input ELSE ev.output]
        chain == [c \in {"User", "ADA"} |->
                    /\ Before.turn_chain[c]
                    /\ t[c] # <<>> => StartsWith(t[c], Before.turn_seen[c])]
    IN  [After EXCEPT
            !.events = @ + 1,
            !.run = RunAfter(Before.run, After.emitted),
            !.dup = {c \in {"User", "ADA"} :
                        /\ t[c] # <<>>
                        /\ t[c] = (IF c = "User" THEN Before.last_input_transcription
                                   ELSE Before.last_output_transcription)},
            !.turn_chain = chain,
            !.turn_seen = [c \in {"User", "ADA"} |->
                              IF t[c] # <<>> THEN t[c] ELSE Before.turn_seen[c]],
            !.turn_heard = [c \in {"User", "ADA"} |->
                              IF chain[c] THEN Before.turn_heard[c] \o Heard(After, c)
                              ELSE <<>>]]

\* The session delivers an event without tool calls.
RecvEvent(l, ev) ==
    LET L == loops[l]
        W == OnEvent([L |-> L, log |-> chat_log], ev)
    IN
    /\ L.tasks["receive_audio"] = "running"
    /\ L.recv_pc = "recv"
    /\ L.events < MaxEvents
    /\ L.turns < MaxTurns
    /\ Len(W.log) <= MaxLog
    /\ Set(l, Observe(L, ev, W.L))
    /\ chat_log' = W.log
    /\ UNCHANGED <<audio_loop, loop_task>>

\* An end of turn that leaves the playback queue as it is.
DrainNothing(L) == L

\* while not self.audio_in_queue.empty(): self.audio_in_queue.get_nowait()
\* (ada.py:1118-1119)
DrainPlayback(L) ==
    [L EXCEPT !.drained = @ \cup {L.audio_in_queue[k] : k \in 1..Len(L.audio_in_queue)},
              !.audio_in_queue = <<>>]

\* The stream of the turn ends (ada.py:1115-1119).
TurnComplete(l) ==
    LET L == loops[l]
        W == FlushChat([L |-> L, log |-> chat_log])
    IN
    /\ L.tasks["receive_audio"] = "running"
    /\ L.recv_pc = "recv"
    /\ L.turns < MaxTurns
    /\ Len(W.log) <= MaxLog
    /\ Set(l, [DrainPlayback(W.L) EXCEPT
                          !.turns = @ + 1,
                          !.emitted = <<>>,
                          !.run = [sender |-> "None", text |-> <<>>],
                          !.dup = {},
                          !.turn_seen = [c \in {"User", "ADA"} |-> <<>>],
                          !.turn_chain = [c \in {"User", "ADA"} |-> TRUE],
                          !.turn_heard = [c \in {"User", "ADA"} |-> <<>>]])
    /\ chat_log' = W.log
    /\ UNCHANGED <<audio_loop, loop_task>>

\* play_audio takes a chunk of the playback queue (ada.py:1135-1139).
PlayAudio(l) ==
    LET L == loops[l] IN
    /\ L.tasks["play_audio"] = "running"
    /\ L.audio_in_queue # <<>>
    /\ Set(l, [L EXCEPT !.audio_in_queue = Tail(@), !.played = @ \cup {Head(L.audio_in_queue)}])
    /\ UNCHANGED <<audio_loop, loop_task, chat_log>>

(***************************************************************************)
(* receive_audio: tool calls and their confirmation (ada.py:300-320,       *)
(* 717-1113)                                                               *)
(***************************************************************************)
\* A permission check that treats a tool without an entry as allowed.
ConfirmationRequiredUnsetFalse(L, name) ==
    IF name \in DOMAIN L.permissions THEN L.permissions[name] ELSE FALSE

\* self.permissions.get(fc.name, True)
ConfirmationRequired(L, name) ==
    IF name \in DOMAIN L.permissions THEN L.permissions[name] ELSE TRUE

\* A response put at the front of the list.
RespondFirst(L, call, result) ==
    [L EXCEPT !.function_responses =
                  <<[id |-> call.id, name |-> call.name, result |-> result]>> \o @]

\* function_responses.append(types.FunctionResponse(...))
Respond(L, call, result) ==
    [L EXCEPT !.function_responses =
                  Append(@, [id |-> call.id, name |-> call.name, result |-> result])]

WebStartedText == "Web Navigation started. Do not reply to this message."

\* asyncio.create_task(self.handle_cad_request(prompt)) and its like
\* (ada.py:786, 791): a task that belongs to no TaskGroup.
Spawn(L, call) ==
    [L EXCEPT !.background =
                  [i \in DOMAIN @ \cup {call.id} |->
                      IF i = call.id
                      THEN [tool |-> call.name, pc |-> "pending", session |-> L.session]
                      ELSE @[i]]]

\* A handler that keeps the Session it was started with.
SendTargetAtSpawn(L, id) == L.background[id].session

\* The Session a handler's send goes to: self.session, read when the send is
\* made (ada.py:519, 635).
SendTarget(L, id) == L.session

\* try: await self.session.send(input=..., end_of_turn=...) except Exception:
\* the send to a closed Session raises, and the handler goes on
\* (ada.py:518-522, 634-637, 858-861).
Notify(L, id, target, text, end_of_turn, ok) ==
    IF ok /\ target \in L.open
    THEN [L EXCEPT !.wire = Append(@, [kind |-> "notification", body |-> text,
                                       call |-> id, session |-> target,
                                       end_of_turn |-> end_of_turn])]
    ELSE [L EXCEPT !.swallowed = @ \cup {[call |-> id, session |-> target]}]

\* project_manager.create_project(name) and, on success, switch_project(name)
\* (ada.py:834-847; project_manager.py:26-49).
CreateProject(L, call) ==
    IF ~L.project_exists
    THEN Respond([L EXCEPT !.project_exists = TRUE, !.current_project = "named"],
                 call, "Project created. Switched.")
    ELSE Respond(L, call, "Project already exists.")

\* project_manager.switch_project(name), up to the send of the context
\* (ada.py:849-866; project_manager.py:40-49).
SwitchProject(L, call) ==
    IF L.project_exists
    THEN [L EXCEPT !.current_project = "named", !.recv_pc = "await_send"]
    ELSE Respond(L, call, "Project does not exist.")

\* The handler of a call is started (ada.py:781-866, 925-939).
Execute(L, call) ==
    LET S(kind) == [L EXCEPT !.started =
                        Append(@, [call |-> call.id, tool |-> call.name, kind |-> kind]),
                             !.recv_pc = "dispatch"]
    IN  CASE call.name = "generate_cad" -> Spawn(S("task"), call)
          [] call.name = "run_web_agent" ->
                Respond(Spawn(S("task"), call), call, WebStartedText)
          [] call.name = "create_project" -> CreateProject(S("inline"), call)
          [] call.name = "switch_project" -> SwitchProject(S("inline"), call)
          [] call.name = "control_light" -> [S("inline") EXCEPT !.recv_pc = "await_agent"]
          [] call.name = "discover_printers" -> [S("inline") EXCEPT !.recv_pc = "await_agent"]

\* A dispatch that answers a call of an unknown tool with an error result.
DispatchAnswersUnknown(L) ==
    LET call == Head(L.calls)
        D == [L EXCEPT !.fc = call, !.calls = Tail(@)]
        id == L.uuids + 1
    IN  IF call.name \notin KnownTools THEN Respond(D, call, "unknown tool")
        ELSE IF ~ConfirmationRequired(D, call.name) THEN Execute(D, call)
        ELSE IF ~D.on_tool_confirmation THEN Raise(D, "receive_audio")
        ELSE [D EXCEPT !.uuids = id,
                       !.request_id = id,
                       !.pending = [i \in DOMAIN @ \cup {id} |->
                                       IF i = id THEN [done |-> FALSE, result |-> FALSE]
                                       ELSE @[i]],
                       !.requests = Append(@, [id |-> id, tool |-> call.name,
                                               call |-> call.id]),
                       !.recv_pc = "await_confirm"]

\* A dispatch that asks for the confirmation and goes on with the next call
\* without awaiting the future.
DispatchNoAwait(L) ==
    LET call == Head(L.calls)
        D == [L EXCEPT !.fc = call, !.calls = Tail(@)]
        id == L.uuids + 1
    IN  IF call.name \notin KnownTools THEN D
        ELSE IF ~ConfirmationRequired(D, call.name) THEN Execute(D, call)
        ELSE IF ~D.on_tool_confirmation THEN Raise(D, "receive_audio")
        ELSE [D EXCEPT !.uuids = id,
                       !.request_id = id,
                       !.pending = [i \in DOMAIN @ \cup {id} |->
                                       IF i = id THEN [done |-> FALSE, result |-> FALSE]
                                       ELSE @[i]],
                       !.requests = Append(@, [id |-> id, tool |-> call.name,
                                               call |-> call.id]),
                       !.recv_pc = "dispatch"]

\* One iteration of the loop over the function calls, up to its first await
\* (ada.py:720-752).  Without a callback request_id is unbound at line 736.
Dispatch(L) ==
    LET call == Head(L.calls)
        D == [L EXCEPT !.fc = call, !.calls = Tail(@)]
        id == L.uuids + 1
    IN  IF call.name \notin KnownTools THEN D
        ELSE IF ~ConfirmationRequired(D, call.name) THEN Execute(D, call)
        ELSE IF ~D.on_tool_confirmation THEN Raise(D, "receive_audio")
        ELSE [D EXCEPT !.uuids = id,
                       !.request_id = id,
                       !.pending = [i \in DOMAIN @ \cup {id} |->
                                       IF i = id THEN [done |-> FALSE, result |-> FALSE]
                                       ELSE @[i]],
                       !.requests = Append(@, [id |-> id, tool |-> call.name,
                                               call |-> call.id]),
                       !.recv_pc = "await_confirm"]

DeniedText == "User denied the request to use this tool."

\* A denial that answers and then runs the handler all the same.
DenyAndRun(L, call) == Execute(Respond(L, call, DeniedText), call)

\* "if not confirmed": the denial is appended and the loop continues with the
\* next call (ada.py:756-766).
Deny(L, call) == Respond([L EXCEPT !.recv_pc = "dispatch"], call, DeniedText)

\* The dispatch goes on after "confirmed = await future" (ada.py:747-778).
Resume(L) ==
    LET confirmed == L.pending[L.request_id].result
        P == [L EXCEPT !.pending = Remove(@, L.request_id)]
    IN  IF ~confirmed THEN Deny(P, L.fc) ELSE Execute(P, L.fc)

\* A resolution that sets the result whether or not the future is done.
ResolveOverwrites(L, request_id, confirmed) ==
    IF request_id \in DOMAIN L.pending
    THEN [L EXCEPT !.pending[request_id] = [done |-> TRUE, result |-> confirmed]]
    ELSE L

\* AudioLoop.resolve_tool_confirmation
Resolve(L, request_id, confirmed) ==
    IF request_id \in DOMAIN L.pending
    THEN IF ~L.pending[request_id].done
         THEN [L EXCEPT !.pending[request_id] = [done |-> TRUE, result |-> confirmed]]
         ELSE L
    ELSE L

\* The session delivers an event with a tool call.
RecvToolCall(l, names) ==
    LET L == loops[l] IN
    /\ L.tasks["receive_audio"] = "running"
    /\ L.recv_pc = "recv"
    /\ L.ncalls + Len(names) <= MaxCalls
    /\ Set(l, [L EXCEPT !.ncalls = @ + Len(names),
                        !.calls = [i \in 1..Len(names) |->
                                      [id |-> L.ncalls + i, name |-> names[i]]],
                        !.function_responses = <<>>,
                        !.recv_pc = "dispatch"])
    /\ UNCHANGED <<audio_loop, loop_task, chat_log>>

DispatchCall(l) ==
    LET L == loops[l] IN
    /\ L.tasks["receive_audio"] = "running"
    /\ L.recv_pc = "dispatch"
    /\ L.calls # <<>>
    /\ Set(l, Dispatch(L))
    /\ UNCHANGED <<audio_loop, loop_task, chat_log>>

ConfirmResume(l) ==
    LET L == loops[l] IN
    /\ L.tasks["receive_audio"] = "running"
    /\ L.recv_pc = "await_confirm"
    /\ L.pending[L.request_id].done
    /\ Set(l, Resume(L))
    /\ UNCHANGED <<audio_loop, loop_task, chat_log>>

\* kasa_agent.turn_on returns (ada.py:937-939, 997-1002);
\* printer_agent.discover_printers returns (ada.py:1006-1019).
AgentReturns(l, success) ==
    LET L == loops[l] IN
    /\ L.tasks["receive_audio"] = "running"
    /\ L.recv_pc = "await_agent"
    /\ Set(l, Respond([L EXCEPT !.recv_pc = "dispatch"], L.fc,
                      IF L.fc.name = "control_light"
                      THEN IF success THEN "Turned ON" ELSE "failed"
                      ELSE IF success THEN "Found Printers" ELSE "No printers found"))
    /\ UNCHANGED <<audio_loop, loop_task, chat_log>>

\* The exception of an agent that receive_audio awaits: no handler between the
\* await and "except Exception ... raise e" (ada.py:1006, 1120-1124).
AgentRaised(L) == [Raise(L, "receive_audio") EXCEPT !.agent_raised = TRUE]

\* printer_agent.discover_printers raises (ada.py:1006); the KasaAgent catches
\* its exceptions itself (kasa_agent.py:127-150).
AgentRaises(l) ==
    LET L == loops[l] IN
    /\ L.tasks["receive_audio"] = "running"
    /\ L.recv_pc = "await_agent"
    /\ L.fc.name = "discover_printers"
    /\ Set(l, AgentRaised(L))
    /\ UNCHANGED <<audio_loop, loop_task, chat_log>>

\* The send of the project context returns or raises, and switch_project's
\* response is appended (ada.py:858-866).
ContextSendReturns(l, ok) ==
    LET L == loops[l] IN
    /\ L.tasks["receive_audio"] = "running"
    /\ L.recv_pc = "await_send"
    /\ Set(l, Respond([Notify(L, L.fc.id, L.session, "project context", FALSE, ok)
                          EXCEPT !.recv_pc = "dispatch"],
                      L.fc, "Switched to project."))
    /\ UNCHANGED <<audio_loop, loop_task, chat_log>>

\* handle_cad_request runs up to "await self.cad_agent.generate_prototype":
\* a project is made when the current one is "temp", and the session is told
\* (ada.py:471-498).
CadTaskStarts(l, id, ok) ==
    LET L == loops[l]
        B == [L EXCEPT !.background[id].pc = "generating"]
    IN
    /\ id \in DOMAIN L.background
    /\ L.background[id].tool = "generate_cad"
    /\ L.background[id].pc = "pending"
    /\ Set(l, IF L.current_project = "temp"
              THEN Notify([B EXCEPT !.current_project = "named"], id, SendTarget(B, id),
                          "Automatic Project Creation.", FALSE, ok)
              ELSE B)
    /\ UNCHANGED <<audio_loop, loop_task, chat_log>>

\* generate_prototype returns the data or None, and the session is told
\* (ada.py:498-530).
CadTaskReturns(l, id, data, ok) ==
    LET L == loops[l]
        B == [L EXCEPT !.background[id].pc = "done"]
    IN
    /\ id \in DOMAIN L.background
    /\ L.background[id].pc = "generating"
    /\ Set(l, Notify(B, id, SendTarget(B, id),
                     IF data THEN "CAD generation is complete!"
                     ELSE "CAD generation failed.", TRUE, ok))
    /\ UNCHANGED <<audio_loop, loop_task, chat_log>>

\* web_agent.run_task returns, and the session is told (ada.py:631-637).
WebTaskReturns(l, id, ok) ==
    LET L == loops[l]
        B == [L EXCEPT !.background[id].pc = "done"]
    IN
    /\ id \in DOMAIN L.background
    /\ L.background[id].tool = "run_web_agent"
    /\ L.background[id].pc = "pending"
    /\ Set(l, Notify(B, id, SendTarget(B, id), "Web Agent has finished.", TRUE, ok))
    /\ UNCHANGED <<audio_loop, loop_task, chat_log>>

\* web_agent.run_task raises: the await is outside the try (ada.py:631), the
\* task ends with the exception and nothing is sent.
WebTaskRaises(l, id) ==
    LET L == loops[l] IN
    /\ id \in DOMAIN L.background
    /\ L.background[id].tool = "run_web_agent"
    /\ L.background[id].pc = "pending"
    /\ Set(l, [L EXCEPT !.background[id].pc = "raised"])
    /\ UNCHANGED <<audio_loop, loop_task, chat_log>>

\* The loop over the calls has ended (ada.py:1112-1113).
DispatchEnd(l) ==
    LET L == loops[l] IN
    /\ L.tasks["receive_audio"] = "running"
    /\ L.recv_pc = "dispatch"
    /\ L.calls = <<>>
    /\ Set(l, [L EXCEPT !.wire = IF L.function_responses = <<>> THEN @
                                 ELSE Append(@, [kind |-> "tool_response",
                                                 body |-> L.function_responses,
                                                 end_of_turn |-> FALSE]),
                        !.fc = NoCall,
                        !.function_responses = <<>>,
                        !.recv_pc = "recv"])
    /\ UNCHANGED <<audio_loop, loop_task, chat_log>>

\* An update that replaces the map by the new entries.
UpdatePermissionsReplaces(l, new_perms) ==
    LET L == loops[l] IN
    /\ L.run_pc # "unborn"
    /\ Set(l, [L EXCEPT !.permissions = new_perms])
    /\ UNCHANGED <<audio_loop, loop_task, chat_log>>

\* AudioLoop.update_permissions
UpdatePermissions(l, new_perms) ==
    LET L == loops[l] IN
    /\ L.run_pc # "unborn"
    /\ Set(l, [L EXCEPT !.permissions =
                            [n \in DOMAIN @ \cup DOMAIN new_perms |->
                                IF n \in DOMAIN new_perms THEN new_perms[n] ELSE @[n]]])
    /\ UNCHANGED <<audio_loop, loop_task, chat_log>>

(***************************************************************************)
(* server.py                                                               *)
(***************************************************************************)
\* loop_task.done() or loop_task.cancelled()
TaskDone(l) == loops[l].run_pc = "done"

\* start_audio (server.py:176-340)
StartAudio ==
    LET busy == audio_loop # 0 /\ ~(loop_task # 0 /\ TaskDone(loop_task))
        born == {l \in LoopIds : loops[l].run_pc # "unborn"}
        n == Cardinality(born) + 1
    IN
    /\ ~busy
    /\ n \in LoopIds
    /\ audio_loop' = n
    /\ loop_task' = n
    /\ Set(n, [NewLoop("none", FALSE) EXCEPT !.run_pc = "loop_check"])
    /\ UNCHANGED chat_log

\* stop_audio (server.py:376-382)
StopAudio ==
    /\ audio_loop # 0
    /\ Set(audio_loop, [loops[audio_loop] EXCEPT !.stop_event = TRUE])
    /\ audio_loop' = 0
    /\ UNCHANGED <<loop_task, chat_log>>

\* confirm_tool (server.py:400-411)
ConfirmTool(id, confirmed) ==
    /\ audio_loop # 0
    /\ Set(audio_loop, Resolve(loops[audio_loop], id, confirmed))
    /\ UNCHANGED <<audio_loop, loop_task, chat_log>>

\* user_input (server.py:445-475): the text is logged and sent as a closed turn;
\* the send raises in the handler when the session is closed.  The texts the
\* user types are pairwise different: the n-th one is n letters long.
UserInput(text) ==
    LET L == loops[audio_loop] IN
    /\ audio_loop # 0
    /\ L.session # 0
    /\ Len(chat_log) < MaxLog
    /\ text = Repeat("a", Len(chat_log) + 1)
    /\ chat_log' = LogChat(chat_log, "User", text)
    /\ IF L.session \in L.open
       THEN Set(audio_loop,
                [L EXCEPT !.wire =
                    Append(@, [kind |-> "user_text", body |-> text, end_of_turn |-> TRUE])])
       ELSE UNCHANGED loops
    /\ UNCHANGED <<audio_loop, loop_task>>

(***************************************************************************)
(* The supervisor of one AudioLoop, run as ada.py's __main__ or the server *)
(* runs it.                                                                *)
(***************************************************************************)
InitSup ==
    /\ \E vm \in VideoModes, sm \in BOOLEAN :
          loops = [l \in LoopIds |->
                      IF l = 1 THEN [NewLoop(vm, sm) EXCEPT !.run_pc = "loop_check"]
                      ELSE Unborn]
    /\ audio_loop = 1
    /\ loop_task = 1
    /\ chat_log = <<>>

NextSup ==
    \/ RunLoopCheck(1)
    \/ ConnectSucceeds(1)
    \/ ConnectFails(1)
    \/ GreetingSent(1)
    \/ GreetingFails(1)
    \/ WaitReturns(1)
    \/ \E t \in TaskNames : TaskRaise(1, t)
    \/ \E t \in TaskNames : TaskReturns(1, t)
    \/ \E t \in TaskNames : TaskCancelled(1, t)
    \/ TgExit(1)
    \/ BackoffElapsed(1)
    \/ Stop(1)

SpecSup == InitSup /\ [][NextSup]_vars

\* The event loop runs every task that is ready, a timer fires, a connection
\* attempt and a send end one way or the other.  Nothing makes a task of the
\* session raise, and nobody has to call stop() or type.
FairSup ==
    /\ SpecSup
    /\ WF_vars(RunLoopCheck(1))
    /\ WF_vars(ConnectSucceeds(1) \/ ConnectFails(1))
    /\ WF_vars(GreetingSent(1) \/ GreetingFails(1))
    /\ WF_vars(WaitReturns(1))
    /\ WF_vars(\E t \in TaskNames : TaskCancelled(1, t))
    /\ WF_vars(TaskReturns(1, "get_screen"))
    /\ WF_vars(TgExit(1))
    /\ WF_vars(BackoffElapsed(1))

(***************************************************************************)
(* Reconnects of the AudioLoop the server created, with a user who types   *)
(***************************************************************************)
InitReplay ==
    /\ loops = [l \in LoopIds |->
                   IF l = 1 THEN [NewLoop("none", FALSE) EXCEPT !.run_pc = "loop_check"]
                   ELSE Unborn]
    /\ audio_loop = 1
    /\ loop_task = 1
    /\ chat_log = <<>>

NextReplay ==
    \/ RunLoopCheck(1)
    \/ ConnectSucceeds(1)
    \/ ConnectFails(1)
    \/ GreetingSent(1)
    \/ GreetingFails(1)
    \/ \E t \in TaskNames : TaskRaise(1, t)
    \/ \E t \in TaskNames : TaskCancelled(1, t)
    \/ TgExit(1)
    \/ BackoffElapsed(1)
    \/ \E text \in {Repeat("a", n) : n \in 1..MaxLog} : UserInput(text)

SpecReplay == InitReplay /\ [][NextReplay]_vars

(***************************************************************************)
(* One active session: the producers of the outbound queue and its sender  *)
(***************************************************************************)
\* run() has connected for the first time and waits for the stop event.
ActiveLoop(vm) ==
    EnterSession([NewLoop(vm, FALSE) EXCEPT !.run_pc = "connecting"], <<>>)

InitMux ==
    /\ \E vm \in {"camera", "none"} :
          loops = [l \in LoopIds |-> IF l = 1 THEN ActiveLoop(vm) ELSE Unborn]
    /\ audio_loop = 1
    /\ loop_task = 1
    /\ chat_log = <<>>

NextMux ==
    \/ /\ loops[1].puts < MaxItems
       /\ \E isLoud \in BOOLEAN, dt \in {ChunkMs, SilenceDurationMs + ChunkMs} :
             ListenRead(1, isLoud, dt)
    \/ GetFramesCapture(1)
    \/ GetFramesPut(1)
    \/ SendRealtimeGet(1)
    \/ SendRealtimeSent(1)
    \/ SendFrame(1)

SpecMux == InitMux /\ [][NextMux]_vars

\* The event loop runs send_realtime when it is ready, and a send to the
\* Session returns; nothing makes the producers produce.
FairMux ==
    /\ SpecMux
    /\ WF_vars(SendRealtimeGet(1))
    /\ WF_vars(SendRealtimeSent(1))

(***************************************************************************)
(* The listener of a run() whose microphone may not open                    *)
(***************************************************************************)
NextMic ==
    \/ /\ loops[1].puts < MaxSendItems
       /\ \E isLoud \in BOOLEAN : ListenRead(1, isLoud, ChunkMs)
    \/ TaskReturns(1, "listen_audio")
    \/ ListenNoInputDevice(1)
    \/ SendFrame(1)
    \/ SendRealtimeGet(1)
    \/ SendRealtimeSent(1)
    \/ \E t \in TaskNames : TaskCancelled(1, t)
    \/ TgExit(1)
    \/ BackoffElapsed(1)
    \/ RunLoopCheck(1)
    \/ ConnectSucceeds(1)
    \/ GreetingSent(1)

SpecMic == InitMux /\ [][NextMic]_vars

(***************************************************************************)
(* The microphone of one session: chunks arrive in real time, one every     *)
(* ChunkMs, the UI stores frames, and the sender empties the queue          *)
(***************************************************************************)
InitVad ==
    /\ loops = [l \in LoopIds |-> IF l = 1 THEN ActiveLoop("none") ELSE Unborn]
    /\ audio_loop = 1
    /\ loop_task = 1
    /\ chat_log = <<>>

NextVad ==
    \/ /\ loops[1].puts < MaxChunks
       /\ \E isLoud \in BOOLEAN : ListenRead(1, isLoud, ChunkMs)
    \/ ListenUnblocked(1, Elapsed(loops[1].silence_elapsed))
    \/ SendFrame(1)
    \/ SendRealtimeGet(1)
    \/ SendRealtimeSent(1)

SpecVad == InitVad /\ [][NextVad]_vars

(***************************************************************************)
(* The sender of a run() whose sends to the Session can fail                *)
(***************************************************************************)
NextSend ==
    \/ /\ loops[1].puts < MaxSendItems
       /\ \E isLoud \in BOOLEAN : ListenRead(1, isLoud, ChunkMs)
    \/ SendFrame(1)
    \/ SendRealtimeGet(1)
    \/ SendRealtimeSent(1)
    \/ SendRealtimeFails(1)
    \/ \E t \in TaskNames : TaskCancelled(1, t)
    \/ TgExit(1)
    \/ BackoffElapsed(1)
    \/ RunLoopCheck(1)
    \/ ConnectSucceeds(1)
    \/ GreetingSent(1)
    \/ Stop(1)

SpecSend == InitVad /\ [][NextSend]_vars

(***************************************************************************)
(* The two queues of a run() that reconnects: the microphone and the       *)
(* sender on one, the receiver and the playback on the other               *)
(***************************************************************************)
AudioEvent == [data |-> TRUE, input |-> <<>>, output |-> <<>>]

NextQueues ==
    \/ /\ loops[1].puts < MaxSendItems
       /\ \E isLoud \in BOOLEAN : ListenRead(1, isLoud, ChunkMs)
    \/ SendRealtimeGet(1)
    \/ SendRealtimeSent(1)
    \/ RecvEvent(1, AudioEvent)
    \/ PlayAudio(1)
    \/ TaskRaise(1, "receive_audio")
    \/ \E t \in TaskNames : TaskCancelled(1, t)
    \/ TgExit(1)
    \/ BackoffElapsed(1)
    \/ RunLoopCheck(1)
    \/ ConnectSucceeds(1)
    \/ GreetingSent(1)

SpecQueues == InitVad /\ [][NextQueues]_vars

(***************************************************************************)
(* The receiver of the AudioLoop the server created: audio and transcripts *)
(* over the turns of its sessions, with reconnects                         *)
(***************************************************************************)
Events ==
    [data : BOOLEAN, input : Texts, output : {<<>>}]
        \cup [data : {FALSE}, input : {<<>>}, output : Texts]

NextRecv ==
    \/ \E ev \in Events : RecvEvent(1, ev)
    \/ TurnComplete(1)
    \/ PlayAudio(1)
    \/ TaskRaise(1, "receive_audio")
    \/ \E t \in TaskNames : TaskCancelled(1, t)
    \/ TgExit(1)
    \/ BackoffElapsed(1)
    \/ RunLoopCheck(1)
    \/ ConnectSucceeds(1)
    \/ GreetingSent(1)

SpecRecv == InitReplay /\ [][NextRecv]_vars

(***************************************************************************)
(* The tool calls of one session, with a UI that answers the confirmation  *)
(* requests                                                                *)
(***************************************************************************)
\* The AudioLoop is the one start_audio creates, with a confirmation callback
\* and the permissions of the settings (server.py:62-71, 280, 294), or one
\* created without a callback (ada.py:1300).
InitDispatch ==
    /\ \E cb \in BOOLEAN :
          loops = [l \in LoopIds |->
                      IF l = 1
                      THEN [ActiveLoop("none") EXCEPT
                               !.on_tool_confirmation = cb,
                               !.permissions = IF cb THEN [n \in {"generate_cad"} |-> TRUE]
                                               ELSE NoPermissions]
                      ELSE Unborn]
    /\ audio_loop = 1
    /\ loop_task = 1
    /\ chat_log = <<>>

NextDispatch ==
    \/ \E names \in UNION {[1..n -> DispatchTools] : n \in 1..MaxCalls} :
          RecvToolCall(1, names)
    \/ DispatchCall(1)
    \/ ConfirmResume(1)
    \/ \E success \in BOOLEAN : AgentReturns(1, success)
    \/ DispatchEnd(1)
    \/ \E id \in 1..MaxCalls, confirmed \in BOOLEAN :
          ConfirmTool(id, confirmed)
    \/ \E n \in KnownTools \cap DispatchTools : UpdatePermissions(1, [x \in {n} |-> FALSE])
    \/ TaskRaise(1, "send_realtime")
    \/ TaskCancelled(1, "receive_audio")

SpecDispatch == InitDispatch /\ [][NextDispatch]_vars

(***************************************************************************)
(* The tool calls whose agent receive_audio awaits, in a run() that         *)
(* reconnects                                                               *)
(***************************************************************************)
NextAgent ==
    \/ \E names \in UNION {[1..n -> AgentTools] : n \in 1..MaxCalls} :
          RecvToolCall(1, names)
    \/ DispatchCall(1)
    \/ ConfirmResume(1)
    \/ \E success \in BOOLEAN : AgentReturns(1, success)
    \/ AgentRaises(1)
    \/ DispatchEnd(1)
    \/ \E id \in 1..MaxCalls, confirmed \in BOOLEAN :
          ConfirmTool(id, confirmed)
    \/ \E t \in TaskNames : TaskCancelled(1, t)
    \/ TgExit(1)
    \/ BackoffElapsed(1)
    \/ RunLoopCheck(1)
    \/ ConnectSucceeds(1)
    \/ GreetingSent(1)

SpecAgent == InitDispatch /\ [][NextAgent]_vars

(***************************************************************************)
(* The events of one session, tool calls among them, with a UI that        *)
(* answers the confirmation requests                                       *)
(***************************************************************************)
GateEvents == {ev \in Events : Len(ev.input) <= 1 /\ Len(ev.output) <= 1}

InitGate ==
    /\ loops = [l \in LoopIds |-> IF l = 1 THEN ActiveLoop("none") ELSE Unborn]
    /\ audio_loop = 1
    /\ loop_task = 1
    /\ chat_log = <<>>

NextGate ==
    \/ \E ev \in GateEvents : RecvEvent(1, ev)
    \/ TurnComplete(1)
    \/ PlayAudio(1)
    \/ \E names \in UNION {[1..n -> {"generate_cad"}] : n \in 1..MaxTaskCalls} :
          RecvToolCall(1, names)
    \/ DispatchCall(1)
    \/ ConfirmResume(1)
    \/ DispatchEnd(1)
    \/ \E id \in 1..MaxCalls, confirmed \in BOOLEAN :
          ConfirmTool(id, confirmed)
    \/ TaskRaise(1, "send_realtime")
    \/ TaskCancelled(1, "receive_audio")

SpecGate == InitGate /\ [][NextGate]_vars

(***************************************************************************)
(* The tool calls of the project manager                                   *)
(***************************************************************************)
InitProject ==
    /\ \E exists \in BOOLEAN :
          loops = [l \in LoopIds |->
                      IF l = 1
                      THEN [ActiveLoop("none") EXCEPT !.project_exists = exists]
                      ELSE Unborn]
    /\ audio_loop = 1
    /\ loop_task = 1
    /\ chat_log = <<>>

NextProject ==
    \/ \E names \in UNION {[1..n -> ProjectTools] : n \in 1..MaxCalls} :
          RecvToolCall(1, names)
    \/ DispatchCall(1)
    \/ ConfirmResume(1)
    \/ \E ok \in BOOLEAN : ContextSendReturns(1, ok)
    \/ DispatchEnd(1)
    \/ \E id \in 1..MaxCalls, confirmed \in BOOLEAN :
          ConfirmTool(id, confirmed)
    \/ \E n \in ProjectTools : UpdatePermissions(1, [x \in {n} |-> FALSE])

SpecProject == InitProject /\ [][NextProject]_vars

(***************************************************************************)
(* The tool calls whose handler is a task of its own, in a run() that      *)
(* reconnects and can be stopped                                            *)
(***************************************************************************)
InitTasks ==
    /\ loops = [l \in LoopIds |->
                   IF l = 1
                   THEN [ActiveLoop("none") EXCEPT
                            !.permissions = [n \in TaskTools |-> FALSE]]
                   ELSE Unborn]
    /\ audio_loop = 1
    /\ loop_task = 1
    /\ chat_log = <<>>

NextTasks ==
    \/ /\ loops[1].ncalls < MaxTaskCalls
       /\ \E name \in TaskTools : RecvToolCall(1, <<name>>)
    \/ DispatchCall(1)
    \/ DispatchEnd(1)
    \/ \E id \in 1..MaxTaskCalls, ok \in BOOLEAN : CadTaskStarts(1, id, ok)
    \/ \E id \in 1..MaxTaskCalls, data \in BOOLEAN, ok \in BOOLEAN :
          CadTaskReturns(1, id, data, ok)
    \/ \E id \in 1..MaxTaskCalls, ok \in BOOLEAN : WebTaskReturns(1, id, ok)
    \/ \E id \in 1..MaxTaskCalls : WebTaskRaises(1, id)
    \/ TaskRaise(1, "send_realtime")
    \/ \E t \in TaskNames : TaskCancelled(1, t)
    \/ TgExit(1)
    \/ BackoffElapsed(1)
    \/ RunLoopCheck(1)
    \/ ConnectSucceeds(1)
    \/ GreetingSent(1)
    \/ Stop(1)

SpecTasks == InitTasks /\ [][NextTasks]_vars

(***************************************************************************)
(* The turns of one session                                                *)
(***************************************************************************)
InitTurn ==
    /\ loops = [l \in LoopIds |-> IF l = 1 THEN ActiveLoop("none") ELSE Unborn]
    /\ audio_loop = 1
    /\ loop_task = 1
    /\ chat_log = <<>>

NextTurn ==
    \/ \E ev \in Events : RecvEvent(1, ev)
    \/ TurnComplete(1)
    \/ PlayAudio(1)

SpecTurn == InitTurn /\ [][NextTurn]_vars

(***************************************************************************)
(* The server with the AudioLoops it creates                               *)
(***************************************************************************)
InitServer ==
    /\ loops = [l \in LoopIds |-> Unborn]
    /\ audio_loop = 0
    /\ loop_task = 0
    /\ chat_log = <<>>

NextServer ==
    \/ StartAudio
    \/ StopAudio
    \/ \E l \in LoopIds :
          \/ RunLoopCheck(l)
          \/ ConnectSucceeds(l)
          \/ ConnectFails(l)
          \/ WaitReturns(l)
          \/ \E t \in TaskNames : TaskRaise(l, t)
          \/ \E t \in TaskNames : TaskCancelled(l, t)
          \/ TgExit(l)
          \/ BackoffElapsed(l)

SpecServer == InitServer /\ [][NextServer]_vars

(***************************************************************************)
(* Claims                                                                  *)
(***************************************************************************)
InSession(L) == L.run_pc \in {"greeting", "waiting", "tg_exit"}

\* C3: when a task of the active session raises, no sibling keeps running (each
\* is cancelled), run() leaves the session only when every task of it has
\* ended, and it leaves it for the backoff sleep, after which the loop check
\* starts a new connection attempt, unless stop was requested; no task of an
\* earlier session is left when the tasks of the next one start.
C3_FailureAbortsGroup ==
    [][\A l \in LoopIds :
        LET L == loops[l]
            M == loops'[l]
        IN
        /\ M.tg_aborting /\ InSession(M) => \A t \in TaskNames : M.tasks[t] # "running"
        /\ ~InSession(M) => Unfinished(M) = {}
        /\ M.leaked = {}
        /\ L.run_pc = "tg_exit" /\ L.tg_aborting /\ M.run_pc # "tg_exit"
              => M.run_pc = (IF L.stop_event THEN "done" ELSE "backoff")
        /\ L.run_pc = "backoff" /\ M.run_pc # "backoff" => M.run_pc = "loop_check"
        /\ L.run_pc = "loop_check" /\ M.run_pc # "loop_check"
              => M.run_pc = (IF L.stop_event THEN "done" ELSE "connecting")
      ]_vars

\* A second session whose tasks started after a task of the first one raised.
C3_Witness ==
    \E l \in LoopIds :
        /\ loops[l].session = 2
        /\ loops[l].is_reconnect
        /\ loops[l].run_pc = "waiting"
        /\ Unfinished(loops[l]) = GroupTasks(loops[l])

C5_StopLeadsToExit ==
    \A l \in LoopIds : loops[l].stop_event ~> loops[l].run_pc = "done"

\* C6: at most one session to the remote model is open at any time, over all
\* the AudioLoops the server has created.
C6_AtMostOneLiveSession ==
    Cardinality({p \in LoopIds \X SessionIds : p[2] \in loops[p[1]].open}) <= 1

\* The items the Session has been sent by send_realtime, in the order sent.
SentItems(L) ==
    LET idx == {i \in 1..Len(L.wire) : L.wire[i].kind = "realtime"}
        Nth[k \in 0..Len(L.wire)] ==
            IF k = 0 THEN <<>>
            ELSE IF k \in idx THEN Append(Nth[k - 1], L.wire[k].body) ELSE Nth[k - 1]
    IN  Nth[Len(L.wire)]

\* C2: the Session is sent the items of the outbound queue in the order they
\* were put: of two items, the one put later is never sent first, whether the
\* other has been sent, is being sent or still waits in the queue.
C2_OutboundFifo ==
    \A l \in LoopIds :
        LET L == loops[l]
            all == SentItems(L) \o L.msg \o L.out_queue
        IN  \A i, j \in 1..Len(all) : i < j => all[i].seq < all[j].seq

\* An image frame was put after an audio chunk and both have been sent, the
\* chunk first.
C2_Witness ==
    \E l \in LoopIds :
        LET sent == SentItems(loops[l]) IN
        \E i, j \in 1..Len(sent) :
            /\ i < j
            /\ sent[i].mime_type = "audio/pcm"
            /\ sent[j].mime_type = "image/jpeg"
            /\ sent[j].seq = MaxItems

\* C7: a connect that follows a dropped session fetches the last
\* min(K, 10) entries of the K in the chat log, oldest first, into one message
\* with end_of_turn true, and that message is the one message it sends.
C7_ReconnectReplay ==
    [][\A l \in LoopIds :
        LET L == loops[l]
            M == loops'[l]
            K == Len(chat_log)
            n == Min(K, HistoryLimit)
        IN
        /\ L.run_pc = "connecting" /\ InSession(M) /\ L.session >= 1
              => /\ M.run_pc = "greeting"
                 /\ Len(M.context_msg) = 1
                 /\ M.context_msg[1].kind = "reconnect_context"
                 /\ M.context_msg[1].end_of_turn
                 /\ Len(M.context_msg[1].body) = n
                 /\ \A i \in 1..n : M.context_msg[1].body[i] = chat_log[K - n + i]
        /\ L.run_pc = "greeting" /\ M.run_pc = "waiting"
              => M.wire = Append(L.wire, L.context_msg[1])
      ]_vars

\* A replay of ten entries that leaves out the oldest entry of the log.
C7_Witness ==
    \E l \in LoopIds :
        LET w == loops[l].wire IN
        /\ loops[l].session = 2
        /\ loops[l].run_pc = "waiting"
        /\ Len(w) >= 1
        /\ w[1].kind = "reconnect_context"
        /\ Len(w[1].body) = HistoryLimit
        /\ w[1].body[1] # chat_log[1]
        /\ w[1].body[HistoryLimit] = chat_log[Len(chat_log)]

\* C8: within one turn, while each cumulative transcript of a channel starts
\* with the one before it, the deltas passed to the transcript callback
\* concatenate to exactly the last transcript received.
C8_DeltasConcatenate ==
    \A l \in LoopIds : \A c \in {"User", "ADA"} :
        (loops[l].turn_chain[c] /\ loops[l].turn_seen[c] # <<>>)
            => loops[l].turn_heard[c] = loops[l].turn_seen[c]

\* C9: an event whose input transcript yields a delta leaves the playback
\* queue empty, whatever was queued before it.
C9_BargeInClearsPlayback ==
    [][\A l \in LoopIds :
          (/\ loops'[l].events = loops[l].events + 1
           /\ \E k \in 1..Len(loops'[l].emitted) :
                  loops'[l].emitted[k].sender = "User")
              => Len(loops'[l].audio_in_queue) = 0]_vars

C9_Witness ==
    \E l \in LoopIds :
        /\ loops[l].cleared >= 2
        /\ \E k \in 1..Len(loops[l].emitted) :
               /\ loops[l].emitted[k].sender = "User"
               /\ loops[l].emitted[k].text # <<>>
        /\ loops[l].audio_in_queue = <<>>

\* C1: the handler of a known tool whose permission entry is missing or true
\* is started only by the dispatch that resumes from a confirmation request
\* emitted for that call and resolved with an approval; the only other start
\* of a handler is that of a call whose entry is false when it is dispatched.
C1_GatedHandlerNeedsApproval ==
    [][\A l \in LoopIds :
          LET L == loops[l]
              N == loops'[l].started[Len(loops'[l].started)]
          IN  loops'[l].started # L.started =>
                \/ /\ L.recv_pc = "dispatch"
                   /\ L.calls # <<>>
                   /\ Head(L.calls).id = N.call
                   /\ N.tool \in DOMAIN L.permissions
                   /\ L.permissions[N.tool] = FALSE
                \/ /\ L.recv_pc = "await_confirm"
                   /\ L.fc.id = N.call
                   /\ \E k \in 1..Len(L.requests) :
                          L.requests[k] = [id |-> L.request_id, tool |-> N.tool,
                                           call |-> N.call]
                   /\ L.request_id \in DOMAIN L.pending
                   /\ L.pending[L.request_id] = [done |-> TRUE, result |-> TRUE]]_vars

C1_Witness ==
    \E l \in LoopIds :
        \E i \in 1..Len(loops[l].started), k \in 1..Len(loops[l].requests) :
            /\ loops[l].started[i].call = loops[l].requests[k].call
            /\ loops[l].started[i].kind = "task"
            /\ \E j \in 1..Len(loops[l].started) : loops[l].started[j].kind = "inline"

\* C10: resolve_tool_confirmation on an id that is not pending or whose future
\* is done changes nothing; a done future keeps its result; the resolution of
\* a pending future changes that future only, and it is the future the
\* suspended dispatch waits on; the dispatch that resumes acts on the result
\* the first resolution set.
C10_ResolveNoOp ==
    \A l \in LoopIds : \A id \in 1..(MaxCalls + 1), confirmed \in BOOLEAN :
        (id \notin DOMAIN loops[l].pending \/ loops[l].pending[id].done)
            => Resolve(loops[l], id, confirmed) = loops[l]

C10_ResolveStep ==
    \A l \in LoopIds :
        LET L == loops[l]
            M == loops'[l]
        IN  /\ \A id \in DOMAIN L.pending \cap DOMAIN M.pending :
                  /\ L.pending[id].done => M.pending[id] = L.pending[id]
                  /\ (~L.pending[id].done /\ M.pending[id].done) =>
                        /\ M = [L EXCEPT !.pending[id] = M.pending[id]]
                        /\ DOMAIN L.pending = {id}
                        /\ L.recv_pc = "await_confirm" /\ L.request_id = id
            /\ (/\ L.recv_pc = "await_confirm"
                /\ M.recv_pc # "await_confirm"
                /\ M.tasks["receive_audio"] = "running") =>
                  /\ L.pending[L.request_id].done
                  /\ IF L.pending[L.request_id].result
                     THEN /\ Len(M.started) = Len(L.started) + 1
                          /\ M.started[Len(M.started)].call = L.fc.id
                     ELSE /\ M.started = L.started
                          /\ M.function_responses =
                                 Append(L.function_responses,
                                        [id |-> L.fc.id, name |-> L.fc.name,
                                         result |-> "User denied the request to use this tool."])

RECURSIVE Flatten(_)
Flatten(seqs) == IF seqs = <<>> THEN <<>> ELSE Head(seqs) \o Flatten(Tail(seqs))

AllResponses(L) ==
    Flatten([k \in 1..Len(L.wire) |->
                IF L.wire[k].kind = "tool_response" THEN L.wire[k].body ELSE <<>>])
        \o L.function_responses

\* C11: a dispatch that resumes on a denial adds one function response with
\* the denial text for its call; a call with a denial response has exactly
\* one function response and its handler is never started.
C11_DenialStep ==
    \A l \in LoopIds :
        LET L == loops[l]
            M == loops'[l]
        IN  (/\ L.recv_pc = "await_confirm"
             /\ M.recv_pc # "await_confirm"
             /\ M.tasks["receive_audio"] = "running"
             /\ ~L.pending[L.request_id].result) =>
                /\ M.function_responses =
                       Append(L.function_responses,
                              [id |-> L.fc.id, name |-> L.fc.name, result |-> DeniedText])
                /\ M.started = L.started

C11_DeniedNeverRuns ==
    \A l \in LoopIds :
        LET R == AllResponses(loops[l]) IN
        \A k \in 1..Len(R) :
            R[k].result = DeniedText =>
                /\ \A j \in 1..Len(R) : R[j].id = R[k].id => j = k
                /\ \A i \in 1..Len(loops[l].started) :
                       loops[l].started[i].call # R[k].id

C11_DenialAnswersOnce == []C11_DeniedNeverRuns /\ [][C11_DenialStep]_vars

C11_Witness ==
    \E l \in LoopIds :
        /\ \E k \in 1..Len(loops[l].wire) :
               /\ loops[l].wire[k].kind = "tool_response"
               /\ \E j \in 1..Len(loops[l].wire[k].body) :
                      loops[l].wire[k].body[j].result = DeniedText
        /\ loops[l].started # <<>>

\* C12: an id is a key of the pending-confirmation map only while the
\* receiver is suspended on that id's future: it is gone once the dispatch
\* has resumed, on an approval or a denial, and once the suspended receiver
\* has been cancelled.
C12_PendingOnlyWhileSuspended ==
    \A l \in LoopIds : \A id \in DOMAIN loops[l].pending :
        /\ loops[l].recv_pc = "await_confirm"
        /\ loops[l].request_id = id
        /\ loops[l].tasks["receive_audio"] \in {"running", "cancelling"}

C12_Witness ==
    \E l \in LoopIds :
        /\ loops[l].recv_pc = "await_confirm"
        /\ loops[l].tasks["receive_audio"] = "none"
        /\ DOMAIN loops[l].pending = {}
        /\ \E i \in 1..Len(loops[l].started), k \in 1..Len(loops[l].requests) :
               loops[l].started[i].call = loops[l].requests[k].call
        /\ \E k \in 1..Len(AllResponses(loops[l])) :
               AllResponses(loops[l])[k].result = DeniedText

\* The calls of the batch that wait for a confirmation: the call the receiver
\* is suspended on and the calls after it that require one.
Gated(L, call) == call.name \in KnownTools /\ ConfirmationRequired(L, call.name)

\* C13: every gated call of a batch in flight has its own pending
\* confirmation request, so that two gated calls of one batch are pending
\* together.
C13_OnePendingPerGatedCall ==
    \A l \in LoopIds :
        LET L == loops[l] IN
        (L.recv_pc = "await_confirm" /\ L.tasks["receive_audio"] = "running") =>
            \A i \in 1..Len(L.calls) :
                Gated(L, L.calls[i]) =>
                    \E k \in 1..Len(L.requests) :
                        /\ L.requests[k].call = L.calls[i].id
                        /\ L.requests[k].id \in DOMAIN L.pending

\* The ids of a sequence of calls or responses increase: they are in the
\* order in which the calls were received.
InOrder(ids) == \A i, j \in 1..Len(ids) : i < j => ids[i] < ids[j]

\* C14: the calls of a batch are taken in the order received, and their
\* function responses are kept in that order and sent in one tool-response
\* message, when no call of the batch is left.
C14_Ordered ==
    \A l \in LoopIds :
        LET L == loops[l] IN
        /\ InOrder([k \in 1..Len(L.started) |-> L.started[k].call])
        /\ InOrder([k \in 1..Len(L.requests) |-> L.requests[k].call])
        /\ InOrder([k \in 1..Len(AllResponses(L)) |-> AllResponses(L)[k].id])
        /\ InOrder(<<L.fc.id>> \o [k \in 1..Len(L.calls) |-> L.calls[k].id])
        /\ \A k \in 1..Len(L.function_responses) : L.function_responses[k].id <= L.fc.id

C14_SendStep ==
    \A l \in LoopIds :
        LET L == loops[l]
            M == loops'[l]
        IN  /\ M.wire # L.wire =>
                  /\ L.recv_pc = "dispatch" /\ L.calls = <<>> /\ M.recv_pc = "recv"
                  /\ L.function_responses # <<>>
                  /\ M.wire = Append(L.wire, [kind |-> "tool_response",
                                              body |-> L.function_responses,
                                              end_of_turn |-> FALSE])
            /\ (L.recv_pc = "dispatch" /\ M.recv_pc = "recv"
                    /\ L.function_responses # <<>>) => M.wire # L.wire
            /\ (L.recv_pc = "recv" /\ M.recv_pc = "dispatch") => M.function_responses = <<>>

C14_BatchAnsweredInOrder == []C14_Ordered /\ [][C14_SendStep]_vars

C14_Witness ==
    \E l \in LoopIds : \E k \in 1..Len(loops[l].wire) :
        /\ loops[l].wire[k].kind = "tool_response"
        /\ Len(loops[l].wire[k].body) >= 2

\* C15: of a run of chunks at or below the threshold that began while the
\* detector was speaking: while the run is shorter than SILENCE_DURATION
\* is_speaking has not been set to false, and once the run has lasted
\* SILENCE_DURATION or more is_speaking has been set to false exactly once.
C15_SilenceDebounce ==
    \A l \in LoopIds :
        loops[l].quiet_spoken =>
            /\ loops[l].quiet_ms < SilenceDurationMs => loops[l].quiet_resets = 0
            /\ loops[l].quiet_ms >= SilenceDurationMs => loops[l].quiet_resets = 1

\* The items the outbound queue has been given so far, in the order they were
\* put: the ones sent, the one being sent and the ones still queued.
Enqueued(L) == SentItems(L) \o L.msg \o L.out_queue

\* The number of image frames among them.
Frames(L) == Cardinality({k \in 1..Len(Enqueued(L)) : Enqueued(L)[k].mime_type = "image/jpeg"})

\* The step puts the audio chunk listen_audio has read on the queue, so that
\* the detector sees the chunk.
ChunkProcessed(L, M) ==
    /\ L.listen_pc \in {"read", "put_audio"}
    /\ M.listen_pc \in {"read", "put_frame"}
    /\ Len(Enqueued(M)) > Len(Enqueued(L))
    /\ Enqueued(M)[Len(Enqueued(L)) + 1] = AudioItem(L.puts + 1)

\* C16: a chunk above the threshold that the detector sees while not speaking
\* makes it speaking and, if a frame is stored, puts exactly one image frame
\* on the outbound queue (at once, or when the full queue has room again); a
\* chunk above the threshold seen while speaking puts no frame.
C16_OnsetStep ==
    \A l \in LoopIds :
        LET L == loops[l]
            M == loops'[l]
        IN  /\ (ChunkProcessed(L, M) /\ M.loud /\ ~L.is_speaking) =>
                  /\ M.is_speaking
                  /\ L.latest_image_payload =>
                        \/ M.listen_pc = "read" /\ Frames(M) = Frames(L) + 1
                        \/ M.listen_pc = "put_frame" /\ Frames(M) = Frames(L)
                  /\ ~L.latest_image_payload =>
                        M.listen_pc = "read" /\ Frames(M) = Frames(L)
            /\ (ChunkProcessed(L, M) /\ M.loud /\ L.is_speaking) =>
                  M.is_speaking /\ M.listen_pc = "read" /\ Frames(M) = Frames(L)
            /\ (L.listen_pc = "put_frame" /\ M.listen_pc # "put_frame") =>
                  M.listen_pc = "read" /\ Frames(M) = Frames(L) + 1

C16_OneFrameAtOnset == [][C16_OnsetStep]_vars

\* An utterance that began with a frame stored and went on: two chunks above
\* the threshold and one frame.
C16_Witness ==
    \E l \in LoopIds :
        LET E == Enqueued(loops[l]) IN
        /\ loops[l].is_speaking /\ loops[l].loud /\ loops[l].listen_pc = "read"
        /\ Frames(loops[l]) = 1
        /\ Len(E) >= 3
        /\ E[Len(E) - 2].mime_type = "audio/pcm"
        /\ E[Len(E) - 1].mime_type = "image/jpeg"
        /\ E[Len(E)].mime_type = "audio/pcm"

\* C17: the silence timestamp is set only while the detector is speaking and
\* the chunk it saw last was at or below the threshold (a chunk whose put is
\* still suspended has not been seen); the timestamp changes only when a chunk
\* is seen, and it is unset after every chunk above the threshold.
C17_TimerInv ==
    \A l \in LoopIds :
        LET L == loops[l] IN
        /\ L.silence_start_time =>
              L.is_speaking /\ (L.listen_pc # "put_audio" => ~L.loud)
        /\ ~L.is_speaking => ~L.silence_start_time

C17_TimerStep ==
    \A l \in LoopIds :
        LET L == loops[l]
            M == loops'[l]
        IN  /\ (ChunkProcessed(L, M) /\ M.loud) => ~M.silence_start_time
            /\ M.silence_start_time # L.silence_start_time =>
                  ChunkProcessed(L, M) /\ (M.silence_start_time => ~M.loud)

C17_SilenceTimer == []C17_TimerInv /\ [][C17_TimerStep]_vars

\* The timer runs: the detector is speaking and has seen a quiet chunk.
C17_Witness ==
    \E l \in LoopIds :
        /\ loops[l].silence_start_time /\ loops[l].is_speaking
        /\ ~loops[l].loud /\ loops[l].listen_pc = "read"

\* C18: an utterance that begins when no frame has ever been stored makes the
\* detector speaking and puts the audio chunk and no frame on the outbound
\* queue; while that utterance lasts, a chunk above the threshold puts no
\* frame either, whether or not a frame has been stored since.
C18_NoFrameStep ==
    \A l \in LoopIds :
        LET L == loops[l]
            M == loops'[l]
        IN  /\ (ChunkProcessed(L, M) /\ M.loud /\ ~L.is_speaking /\ L.stored_at = 0) =>
                  /\ M.is_speaking /\ M.listen_pc = "read"
                  /\ Enqueued(M) = Append(Enqueued(L), AudioItem(L.puts + 1))
            /\ (ChunkProcessed(L, M) /\ M.loud /\ L.is_speaking /\ Frames(L) = 0) =>
                  /\ M.is_speaking /\ M.listen_pc = "read"
                  /\ Enqueued(M) = Append(Enqueued(L), AudioItem(L.puts + 1))

\* While no frame has been stored, and while the utterance lasts that began
\* before the first frame was stored, the queue has been given no frame.
C18_NoFrameInv ==
    \A l \in LoopIds :
        LET L == loops[l]
            E == Enqueued(L)
        IN  /\ L.stored_at = 0 => Frames(L) = 0 /\ L.listen_pc # "put_frame"
            /\ \A k \in 1..Len(E) :
                  E[k].mime_type = "image/jpeg" => k >= L.stored_at /\ k >= 2

C18_NoFrameWithoutStoredFrame == []C18_NoFrameInv /\ [][C18_NoFrameStep]_vars

\* The utterance began before the first frame was stored, a chunk above the
\* threshold was seen after it was stored, and the queue was given no frame.
C18_Witness ==
    \E l \in LoopIds :
        LET L == loops[l] IN
        /\ L.is_speaking /\ L.loud /\ L.listen_pc = "read"
        /\ L.stored_at >= 2 /\ L.puts >= L.stored_at
        /\ Frames(L) = 0

\* C19: in every video mode the outbound queue is given an image frame only
\* at a speech onset, one frame for the utterance: a step that adds a frame is
\* the step in which the detector sees the first chunk above the threshold of
\* an utterance, or the one that resumes the put of its frame, and it adds one.
C19_FrameStep ==
    \A l \in LoopIds :
        LET L == loops[l]
            M == loops'[l]
        IN  Frames(M) # Frames(L) =>
              /\ Frames(M) = Frames(L) + 1
              /\ \/ ChunkProcessed(L, M) /\ M.loud /\ ~L.is_speaking
                 \/ L.listen_pc = "put_frame" /\ M.listen_pc = "read"

C19_FramesOnlyAtOnsets == [][C19_FrameStep]_vars

\* C20: while run() sleeps before a retry, the delay is min(2^(i-1), 10)
\* seconds, i being the number of unexpected failures since the last connect
\* that succeeded (since the start, if none did): 1, 2, 4, 8, 10, 10, ...,
\* and 1 again for the first failure after a successful connect.
C20_BackoffDelay ==
    \A l \in LoopIds :
        loops[l].run_pc = "backoff" =>
            /\ loops[l].failures >= 1
            /\ loops[l].retry_delay = Min(2 ^ (loops[l].failures - 1), MaxRetryDelay)

\* The messages of a kind among the ones the current session has been sent.
SentOfKind(L, kind) == {k \in 1..Len(L.wire) : L.wire[k].kind = kind}

\* C21: once run() has greeted the session of its first successful connect,
\* that session has been sent the caller's start message, if there is one,
\* exactly once and as a closed turn, and no reconnect history message; the
\* session of every later connect has been sent one reconnect history message
\* and no start message.
C21_GreetingByConnect ==
    \A l \in LoopIds :
        LET L == loops[l] IN
        (L.run_pc = "waiting" /\ L.session >= 1) =>
            IF L.session = 1
            THEN /\ SentOfKind(L, "reconnect_context") = {}
                 /\ L.start_message =>
                       /\ Cardinality(SentOfKind(L, "start_message")) = 1
                       /\ L.wire[1] = StartMsg /\ L.wire[1].end_of_turn
                 /\ ~L.start_message => SentOfKind(L, "start_message") = {}
            ELSE /\ Cardinality(SentOfKind(L, "reconnect_context")) = 1
                 /\ SentOfKind(L, "start_message") = {}

\* C22: every item the outbound queue accepted is, once and in one place,
\* among the items sent, being sent or queued; a send takes the one item that
\* was dequeued and sends it as one message; and in the end every accepted
\* item has been sent.
C22_Accounted ==
    \A l \in LoopIds :
        LET L == loops[l]
            E == Enqueued(L)
        IN  /\ Len(E) = L.puts
            /\ \A k \in 1..Len(E) : E[k].seq = k
            /\ Len(L.msg) <= 1

C22_SendStep ==
    \A l \in LoopIds :
        LET L == loops[l]
            M == loops'[l]
        IN  M.wire # L.wire =>
              /\ L.send_pc = "send" /\ Len(L.msg) = 1
              /\ M.wire = Append(L.wire, [kind |-> "realtime", body |-> L.msg[1],
                                          end_of_turn |-> FALSE])
              /\ M.msg = <<>> /\ M.out_queue = L.out_queue

C22_AllSent ==
    \A l \in LoopIds :
        loops[l].run_pc # "unborn" =>
            /\ loops[l].out_queue = <<>> /\ loops[l].msg = <<>>
            /\ Len(SentItems(loops[l])) = loops[l].puts

C23_SendFailureStep ==
    \A l \in LoopIds :
        LET L == loops[l]
            M == loops'[l]
        IN  /\ (L.tasks["send_realtime"] = "running" /\ M.tasks["send_realtime"] = "none"
                    /\ M.session = L.session) =>
                  /\ L.send_pc = "send" /\ Len(L.msg) = 1
                  /\ M.wire = L.wire /\ M.out_queue = L.out_queue
                  /\ M.tg_aborting /\ M.run_pc = "tg_exit"
                  /\ \A t \in TaskNames : M.tasks[t] # "running"
            /\ (L.tasks["send_realtime"] # "running" /\ M.session = L.session) =>
                  /\ SentItems(M) = SentItems(L)
                  /\ M.tasks["send_realtime"] # "running"
            /\ (L.run_pc = "tg_exit" /\ L.tg_aborting /\ M.run_pc # "tg_exit") =>
                  M.run_pc = (IF L.stop_event THEN "done" ELSE "backoff")
            /\ M.session # L.session =>
                  /\ M.msg = <<>> /\ M.out_queue = <<>> /\ SentItems(M) = <<>>
                  /\ M.send_pc = "get"

\* Once a send has raised, the sender has ended, the group is aborted and
\* the failed item is not among the items sent.
C23_AfterFailure ==
    \A l \in LoopIds :
        LET L == loops[l] IN
        L.failed # {} =>
            /\ L.tasks["send_realtime"] = "none"
            /\ Cardinality(L.failed) = 1
            /\ InSession(L) => L.tg_aborting
            /\ \A k \in 1..Len(SentItems(L)) : SentItems(L)[k] \notin L.failed
            /\ \A k \in 1..Len(L.out_queue) : L.out_queue[k] \notin L.failed

C23_FailedSendEndsSender == []C23_AfterFailure /\ [][C23_SendFailureStep]_vars

\* After a failed send run() has reconnected and the new session has been
\* sent an item.
C23_Witness ==
    \E l \in LoopIds :
        /\ loops[l].session = 2 /\ loops[l].is_reconnect
        /\ loops[l].run_pc = "waiting"
        /\ SentItems(loops[l]) # <<>>

\* C24: the outbound queue holds at most OutQueueMax items.  A put on a full
\* queue puts nothing and leaves the producer suspended at that put, where it
\* stays until the queue has room; the queue loses an item only to the get of
\* the sender, which takes the oldest; every put appends to the items queued.
C24_Capacity ==
    \A l \in LoopIds :
        LET L == loops[l] IN
        /\ Len(L.out_queue) <= OutQueueMax
        /\ Len(Enqueued(L)) = L.puts
        /\ \A k \in 1..L.puts : Enqueued(L)[k].seq = k

C24_PutStep ==
    \A l \in LoopIds :
        LET L == loops[l]
            M == loops'[l]
        IN  /\ (Full(L.out_queue) /\ M.listen_pc # L.listen_pc) =>
                  /\ L.listen_pc = "read" /\ M.listen_pc = "put_audio"
                  /\ M.out_queue = L.out_queue /\ M.puts = L.puts
            /\ (L.listen_pc \in {"put_audio", "put_frame"} /\ M.listen_pc # L.listen_pc) =>
                  /\ ~Full(L.out_queue)
                  /\ M.puts > L.puts
            /\ M.puts > L.puts =>
                  /\ ~Full(L.out_queue)
                  /\ Len(M.out_queue) > Len(L.out_queue)
                  /\ SubSeq(M.out_queue, 1, Len(L.out_queue)) = L.out_queue
            /\ Len(M.out_queue) < Len(L.out_queue) =>
                  /\ L.send_pc = "get"
                  /\ M.out_queue = Tail(L.out_queue)
                  /\ M.msg = <<Head(L.out_queue)>>

C24_BoundedQueueSuspends == []C24_Capacity /\ [][C24_PutStep]_vars

\* The queue is full and listen_audio is suspended at the put of a chunk.
C24_Witness ==
    \E l \in LoopIds :
        /\ Len(loops[l].out_queue) = OutQueueMax
        /\ loops[l].listen_pc = "put_audio"
        /\ loops[l].puts = OutQueueMax

\* C25: an event whose input or output transcript equals the text last seen
\* on that channel passes nothing of that channel to the transcript callback,
\* leaves the tracker of the channel, the chat buffer and the chat log as they
\* were, and clears no chunk of the playback queue.
C25_DuplicateStep ==
    \A l \in LoopIds : \A c \in {"User", "ADA"} :
        LET L == loops[l]
            M == loops'[l]
        IN  (M.events = L.events + 1 /\ c \in M.dup) =>
              /\ \A k \in 1..Len(M.emitted) : M.emitted[k].sender # c
              /\ M.last_input_transcription = L.last_input_transcription
              /\ M.last_output_transcription = L.last_output_transcription
              /\ M.chat_buffer = L.chat_buffer
              /\ chat_log' = chat_log
              /\ Len(M.audio_in_queue) >= Len(L.audio_in_queue)
              /\ SubSeq(M.audio_in_queue, 1, Len(L.audio_in_queue)) = L.audio_in_queue

C25_DuplicateEmitsNothing == [][C25_DuplicateStep]_vars

\* The last event repeated the input transcript while audio was queued for
\* playback and text was buffered.
C25_Witness ==
    \E l \in LoopIds :
        /\ "User" \in loops[l].dup
        /\ loops[l].emitted = <<>>
        /\ Len(loops[l].audio_in_queue) >= 2
        /\ loops[l].chat_buffer.sender = "User"
        /\ loops[l].chat_buffer.text = loops[l].last_input_transcription

\* C26: when run() has fetched the history for the replay message of a
\* reconnect, the chat buffer holds no text that is still to be persisted:
\* what the dropped session had accumulated is in the chat log.
C26_FlushedBeforeReplay ==
    \A l \in LoopIds :
        LET L == loops[l] IN
        (L.run_pc = "greeting" /\ L.is_reconnect) =>
            \/ L.chat_buffer.sender = "None"
            \/ IsBlank(L.chat_buffer.text)

\* C27: the flush at the end of a turn leaves the chat buffer with no sender
\* and no text, whatever it held, and appends a buffered text that is not
\* blank to the chat log, once; it appends nothing else.
C27_FlushStep ==
    \A l \in LoopIds :
        LET L == loops[l]
            M == loops'[l]
            buf == L.chat_buffer
        IN  M.turns = L.turns + 1 =>
              /\ M.chat_buffer = [sender |-> "None", text |-> <<>>]
              /\ chat_log' = IF buf.sender # "None" /\ ~IsBlank(buf.text)
                             THEN LogChat(chat_log, buf.sender, buf.text)
                             ELSE chat_log

C27_TurnEndResetsBuffer == [][C27_FlushStep]_vars

\* C28: the end of a turn leaves the playback queue empty and plays nothing;
\* the queue stays empty until the next event is received; and a chunk that
\* was discarded at the end of a turn is never taken by play_audio.
C28_DrainStep ==
    \A l \in LoopIds :
        LET L == loops[l]
            M == loops'[l]
        IN  /\ M.turns = L.turns + 1 =>
                  /\ M.audio_in_queue = <<>>
                  /\ M.played = L.played
                  /\ M.drained = L.drained \cup
                         {L.audio_in_queue[k] : k \in 1..Len(L.audio_in_queue)}
            /\ (M.events = L.events /\ L.audio_in_queue = <<>>) => M.audio_in_queue = <<>>

C28_NeverPlayed ==
    \A l \in LoopIds :
        /\ loops[l].drained \cap loops[l].played = {}
        /\ \A k \in 1..Len(loops[l].audio_in_queue) :
              loops[l].audio_in_queue[k] \notin loops[l].drained

C28_TurnEndDrainsPlayback == []C28_NeverPlayed /\ [][C28_DrainStep]_vars

\* A turn ended with a chunk queued, which was discarded, and in the next
\* turn a chunk was received and played.
C28_Witness ==
    \E l \in LoopIds :
        /\ loops[l].turns >= 1
        /\ loops[l].drained # {}
        /\ \E p \in loops[l].played : \A d \in loops[l].drained : p > d

\* C29: when an agent has raised during a tool call, receive_audio is still
\* running, the group of the session is not aborted and run() has not
\* reconnected, and the session has been sent a failure notification as a
\* closed turn.
C29_AgentFailureContained ==
    \A l \in LoopIds :
        LET L == loops[l] IN
        L.agent_raised =>
            /\ L.tasks["receive_audio"] = "running"
            /\ ~L.tg_aborting /\ ~L.is_reconnect /\ L.session = 1
            /\ \E k \in 1..Len(L.wire) :
                  L.wire[k].kind = "notification" /\ L.wire[k].end_of_turn

\* C30: in a session whose microphone input stream could not be opened,
\* listen_audio has ended and the group is not aborted: run() stays in the
\* session, every other task of the session is running, and the outbound
\* queue has been given no audio chunk.
C30_MicFailureContained ==
    \A l \in LoopIds :
        LET L == loops[l] IN
        L.mic_failed =>
            /\ L.tasks["listen_audio"] = "none"
            /\ ~L.tg_aborting
            /\ L.run_pc \in {"greeting", "waiting"}
            /\ \A t \in GroupTasks(L) \ {"listen_audio"} : L.tasks[t] = "running"
            /\ \A k \in 1..Len(Enqueued(L)) : Enqueued(L)[k].mime_type # "audio/pcm"

\* C31: the dispatch of a call whose name is not a known tool starts no
\* handler, emits no confirmation request, creates no pending entry and adds
\* no function response, and goes on with the next call; no handler, request
\* or response ever names an unknown tool.
C31_UnknownStep ==
    \A l \in LoopIds :
        LET L == loops[l]
            M == loops'[l]
        IN  (L.recv_pc = "dispatch" /\ L.calls # <<>> /\ M.calls # L.calls
                /\ Head(L.calls).name \notin KnownTools) =>
              /\ M.started = L.started
              /\ M.requests = L.requests
              /\ M.pending = L.pending
              /\ M.function_responses = L.function_responses
              /\ M.wire = L.wire
              /\ M.recv_pc = "dispatch" /\ M.calls = Tail(L.calls)
              /\ M.tasks = L.tasks

C31_KnownOnly ==
    \A l \in LoopIds :
        LET L == loops[l] IN
        /\ \A k \in 1..Len(L.started) : L.started[k].tool \in KnownTools
        /\ \A k \in 1..Len(L.requests) : L.requests[k].tool \in KnownTools
        /\ \A k \in 1..Len(AllResponses(L)) : AllResponses(L)[k].name \in KnownTools

C31_UnknownToolIgnored == []C31_KnownOnly /\ [][C31_UnknownStep]_vars

\* The first call was of an unknown tool: the tool response that has been
\* sent answers the second call and no handler or response is of the first.
C31_Witness ==
    \E l \in LoopIds :
        LET L == loops[l] IN
        /\ \E k \in 1..Len(L.wire) :
              /\ L.wire[k].kind = "tool_response"
              /\ \E j \in 1..Len(L.wire[k].body) : L.wire[k].body[j].id = 2
        /\ \A k \in 1..Len(AllResponses(L)) : AllResponses(L)[k].id # 1
        /\ \A k \in 1..Len(L.started) : L.started[k].call # 1
        /\ \A k \in 1..Len(L.requests) : L.requests[k].call # 1

\* C32: the dispatch of a create_project call that succeeds, and the one of a
\* switch_project call that succeeds, each send the session a notification
\* with the context of the project, with end_of_turn false, before the call
\* is answered, unless that send raises.
C32_Notified(L, id) ==
    \/ \E k \in 1..Len(L.wire) :
          /\ L.wire[k].kind = "notification"
          /\ L.wire[k].call = id
          /\ L.wire[k].body = "project context"
          /\ ~L.wire[k].end_of_turn
    \/ \E f \in L.swallowed : f.call = id

C32_ProjectContextSent ==
    \A l \in LoopIds :
        LET L == loops[l] IN
        \A k \in 1..Len(L.function_responses) :
            LET r == L.function_responses[k] IN
            (r.name \in ProjectTools
                /\ r.result \in {"Project created. Switched.", "Switched to project."})
              => C32_Notified(L, r.id)

\* C33: a call whose handler was started as a task of its own has no function
\* response, neither in the batch in progress nor in a tool response that was
\* sent.
C33_NoImmediateResponse ==
    \A l \in LoopIds :
        LET L == loops[l] IN
        \A id \in DOMAIN L.background :
            \A k \in 1..Len(AllResponses(L)) : AllResponses(L)[k].id # id

\* C34: on an AudioLoop without a confirmation callback, the dispatch of a
\* call that requires confirmation starts the handler of the call without a
\* request or a pending confirmation, and receive_audio goes on running.
C34_NoCallbackProceeds ==
    [][\A l \in LoopIds :
          LET L == loops[l]
              M == loops'[l]
          IN  (/\ L.recv_pc = "dispatch" /\ L.calls # <<>> /\ M.calls # L.calls
               /\ L.tasks["receive_audio"] = "running"
               /\ ~L.on_tool_confirmation
               /\ Gated(L, Head(L.calls))) =>
                /\ M.tasks["receive_audio"] = "running"
                /\ ~M.tg_aborting
                /\ M.requests = L.requests
                /\ M.pending = L.pending
                /\ Len(M.started) = Len(L.started) + 1
                /\ M.started[Len(M.started)].call = Head(L.calls).id]_vars

\* C35: an update of the permissions that sets the entry of a tool to false
\* leaves the entry of every other tool as it was, and the dispatch of a call
\* of a tool whose entry is false starts the handler of the call without a
\* confirmation request and without a pending confirmation.
C35_UpdateStep ==
    \A l \in LoopIds :
        LET L == loops[l]
            M == loops'[l]
        IN  M.permissions # L.permissions =>
              \E n \in KnownTools :
                  /\ DOMAIN M.permissions = DOMAIN L.permissions \cup {n}
                  /\ ~M.permissions[n]
                  /\ \A m \in DOMAIN L.permissions \ {n} :
                        M.permissions[m] = L.permissions[m]

C35_AutoAllowStep ==
    \A l \in LoopIds :
        LET L == loops[l]
            M == loops'[l]
        IN  (/\ L.recv_pc = "dispatch" /\ L.calls # <<>> /\ M.calls # L.calls
             /\ L.tasks["receive_audio"] = "running"
             /\ Head(L.calls).name \in DOMAIN L.permissions
             /\ ~L.permissions[Head(L.calls).name]) =>
              /\ M.requests = L.requests
              /\ M.pending = L.pending
              /\ M.uuids = L.uuids
              /\ M.recv_pc # "await_confirm"
              /\ Len(M.started) = Len(L.started) + 1
              /\ M.started[Len(M.started)].call = Head(L.calls).id

C35_FalseEntrySkipsConfirmation == [][C35_UpdateStep /\ C35_AutoAllowStep]_vars

\* The entry of control_light was set to false and the one of generate_cad
\* is still true: a call of control_light was started with no request, and a
\* call of generate_cad after it has a request.
C35_Witness ==
    \E l \in LoopIds :
        LET L == loops[l] IN
        /\ DOMAIN L.permissions = {"generate_cad", "control_light"}
        /\ L.permissions["generate_cad"] /\ ~L.permissions["control_light"]
        /\ \E k \in 1..Len(L.started) :
              /\ L.started[k].tool = "control_light"
              /\ \A j \in 1..Len(L.requests) : L.requests[j].call # L.started[k].call
              /\ \E j \in 1..Len(L.requests) :
                    L.requests[j].tool = "generate_cad"
                      /\ L.requests[j].call > L.started[k].call

\* C36: while receive_audio runs and a confirmation it asked for is not
\* resolved, no event is received and no turn ends: no chunk is added to the
\* playback queue, no transcript is emitted or logged, no call is dispatched
\* and none is answered; the dispatch stays where it is until the
\* confirmation is resolved or the task is cancelled.
C36_Suspended(L) ==
    /\ L.tasks["receive_audio"] = "running"
    /\ \E id \in DOMAIN L.pending : ~L.pending[id].done

C36_SuspendedStep ==
    \A l \in LoopIds :
        LET L == loops[l]
            M == loops'[l]
        IN  C36_Suspended(L) =>
              /\ M.events = L.events
              /\ M.turns = L.turns
              /\ M.emitted = L.emitted
              /\ M.chat_buffer = L.chat_buffer
              /\ chat_log' = chat_log
              /\ \E n \in 0..Len(L.audio_in_queue) :
                    M.audio_in_queue = SubSeq(L.audio_in_queue, n + 1, Len(L.audio_in_queue))
              /\ M.calls = L.calls
              /\ M.ncalls = L.ncalls
              /\ M.started = L.started
              /\ M.requests = L.requests
              /\ M.function_responses = L.function_responses
              /\ M.wire = L.wire
              /\ \/ M.recv_pc = L.recv_pc /\ M.recv_pc = "await_confirm"
                 \/ M.tasks["receive_audio"] # "running"

C36_ReceiveSuspendedOnConfirmation == [][C36_SuspendedStep]_vars

\* The dispatch is suspended on a confirmation after an event with audio was
\* received, with a later call of the batch not yet dispatched and with
\* events the session could still deliver.
C36_Witness ==
    \E l \in LoopIds :
        LET L == loops[l] IN
        /\ C36_Suspended(L)
        /\ L.recv_pc = "await_confirm"
        /\ L.calls # <<>>
        /\ L.audio_in_queue # <<>>
        /\ L.events >= 1 /\ L.events < MaxEvents /\ L.turns < MaxTurns

\* C37: the chat log is the runs of transcript payloads as the callback was
\* given them: a run of one sender ends when a payload of the other sender is
\* emitted or when the turn ends; when a run that is not blank ends, its
\* sender and text are appended to the log, once, and nothing else is ever
\* appended.
C37_RunEnds(L, M) ==
    \/ M.turns = L.turns + 1
    \/ /\ M.events = L.events + 1
       /\ M.emitted # <<>>
       /\ L.run.sender # "None"
       /\ M.emitted[1].sender # L.run.sender

C37_LogStep ==
    \A l \in LoopIds :
        LET L == loops[l]
            M == loops'[l]
        IN  l = audio_loop =>
              chat_log' = IF C37_RunEnds(L, M) /\ ~IsBlank(L.run.text)
                          THEN LogChat(chat_log, L.run.sender, L.run.text)
                          ELSE chat_log

C37_LogEqualsEmittedRuns == [][C37_LogStep]_vars

\* C38: in the session of a reconnect, the first transcript that is not empty
\* of a channel is passed to the transcript callback whole, whatever the
\* session before it had received on that channel.
C38_FirstAfterReconnect ==
    [][\A l \in LoopIds : \A c \in {"User", "ADA"} :
          LET L == loops[l]
              M == loops'[l]
          IN  (/\ M.events = L.events + 1
               /\ L.session > 1
               /\ L.turn_seen[c] = <<>>
               /\ M.turn_seen[c] # <<>>) =>
                \E k \in 1..Len(M.emitted) :
                    M.emitted[k] = [sender |-> c, text |-> M.turn_seen[c]]]_vars

\* C39: the step that enters a session leaves the outbound queue and the
\* playback queue empty; the items the Session has been sent are no more than
\* the items put on the outbound queue since the session began; every chunk
\* in the playback queue was received in the current session, and so was every
\* chunk play_audio takes.
C39_ConnectStep ==
    \A l \in LoopIds :
        LET L == loops[l]
            M == loops'[l]
        IN  /\ M.session # L.session =>
                  /\ M.out_queue = <<>>
                  /\ M.audio_in_queue = <<>>
            /\ \A e \in M.played \ L.played : e > L.events_before

C39_OfThisSession ==
    \A l \in LoopIds :
        LET L == loops[l] IN
        /\ Len(Enqueued(L)) <= L.puts
        /\ \A k \in 1..Len(L.audio_in_queue) : L.audio_in_queue[k] > L.events_before

C39_SessionStartsWithEmptyQueues == []C39_OfThisSession /\ [][C39_ConnectStep]_vars

\* In the session of a reconnect an item has been sent and a chunk has been
\* played, and a chunk received in the session before it was never played:
\* it was queued when that session ended.
C39_Witness ==
    \E l \in LoopIds :
        LET L == loops[l] IN
        /\ L.session > 1
        /\ SentItems(L) # <<>>
        /\ \E e \in L.played : e > L.events_before
        /\ \E e \in 1..L.events_before : e \notin L.played \cup L.drained

\* C40: a task made for a tool handler goes on only by its own steps: a step
\* that changes the tasks of the session, the session, the place of run() or
\* the stop event leaves every such task where it was, so that none is
\* cancelled with the session and none ends a task of the session; when such
\* a task ends by returning, its notification was sent as a closed turn to the
\* session that is current at that step, or the send raised and the
\* exception was caught.
C40_OwnSteps(from, to) ==
    \/ to = from
    \/ from.pc = "pending" /\ to = [from EXCEPT !.pc = "generating"]
    \/ from.pc = "pending" /\ from.tool = "run_web_agent"
          /\ to \in {[from EXCEPT !.pc = "done"], [from EXCEPT !.pc = "raised"]}
    \/ from.pc = "generating" /\ to = [from EXCEPT !.pc = "done"]

C40_Notified(L, M, id) ==
    \/ /\ Len(M.wire) = Len(L.wire) + 1
       /\ SubSeq(M.wire, 1, Len(L.wire)) = L.wire
       /\ LET n == M.wire[Len(M.wire)] IN
             /\ n.kind = "notification"
             /\ n.call = id
             /\ n.session = L.session
             /\ n.session \in L.open
             /\ n.end_of_turn
       /\ M.swallowed = L.swallowed
    \/ /\ M.wire = L.wire
       /\ M.swallowed = L.swallowed \cup {[call |-> id, session |-> L.session]}

C40_TaskStep ==
    \A l \in LoopIds :
        LET L == loops[l]
            M == loops'[l]
        IN  \A id \in DOMAIN L.background :
              /\ id \in DOMAIN M.background
              /\ C40_OwnSteps(L.background[id], M.background[id])
              /\ (\/ M.tasks # L.tasks
                  \/ M.session # L.session
                  \/ M.run_pc # L.run_pc
                  \/ M.tg_aborting # L.tg_aborting
                  \/ M.stop_event # L.stop_event) =>
                    /\ M.background[id] = L.background[id]
                    /\ M.swallowed = L.swallowed
              /\ (L.background[id].pc # "done" /\ M.background[id].pc = "done") =>
                    C40_Notified(L, M, id)

C40_BackgroundTaskOutlivesSession == [][C40_TaskStep]_vars

\* A task made in the first session has ended in the session of a reconnect,
\* and its notification is among what that session has been sent.
C40_Witness ==
    \E l \in LoopIds :
        LET L == loops[l] IN
        /\ L.session > 1
        /\ \E id \in DOMAIN L.background :
              /\ L.background[id].session = 1
              /\ L.background[id].pc = "done"
              /\ \E k \in 1..Len(L.wire) :
                    /\ L.wire[k].kind = "notification"
                    /\ L.wire[k].call = id
                    /\ L.wire[k].end_of_turn
                    /\ L.wire[k].session = L.session

====
